---- MODULE Spec2Model ----
(***************************************************************************)
(* A model of mcp-client-base: the connection state machine                *)
(* (ConnectionStateManager), the re-synchronization coordinator            *)
(* (ReSyncManager) and the request registry and lifecycle of               *)
(* BaseMCPClient.                                                          *)
(*                                                                         *)
(* The program runs on one JavaScript event loop.  A handler (a public     *)
(* call, a timer expiry, a chunk of process output, a process event) runs  *)
(* to completion together with the promise continuations it makes ready,   *)
(* so one action of the model is one such handler followed by the drain    *)
(* of the continuation queue.  The operators that translate the code take  *)
(* the whole program state as a record W and return the state after the    *)
(* call; W.threw / W.thrown say whether the call raised and with which     *)
(* message.                                                                *)
(***************************************************************************)
EXTENDS Integers, Sequences, FiniteSets, TLC

VARIABLES
  stateManager,   \* ConnectionStateManager: state, listeners, statusHistory,
                  \* serverProcessRunning, currentMessage
  delivered,      \* per listener: the statuses its callback has received
  now,            \* Date.now()
  lastCall,       \* the last call made on the state manager and its outcome
  expected,       \* per listener: accepted setState calls while registered
  occurred,       \* every status ever added to the history, in order
  script,         \* the remaining targets of a scripted run of setState
  requestId,      \* BaseMCPClient.requestId
  pendingRequests,\* BaseMCPClient.pendingRequests: id -> entry
  timers,         \* the ids whose request timer is armed
  future,         \* per request: the promise sendRequest returned
  awaiting,       \* per request: who awaits its promise
  serverProcess,  \* BaseMCPClient.serverProcess (0: undefined)
  procs,          \* the child processes spawned so far
  isStopping,     \* BaseMCPClient.isStopping
  lastError,      \* BaseMCPClient.lastError (message; empty set: undefined)
  currentAttempt, \* ReSyncManager.currentAttempt
  reSyncConfig,   \* ReSyncManager.config
  startCall,      \* the start() call in flight, or the outcome of the last
  frames,         \* per timed-out handshake: its attemptReSync call
  timeoutConfig,  \* TimeoutManager.config
  timeoutCall,    \* the last call made on the timeout manager and its outcome
  stdout,         \* the standard output of the server process: the bytes it
                  \* writes, the handler's buffer and the messages dispatched
  audit           \* what has happened to each request so far

smVars == <<stateManager, delivered, now, lastCall, expected, occurred, script>>

clientVars ==
  <<requestId, pendingRequests, timers, future, awaiting, serverProcess,
    procs, isStopping, lastError, currentAttempt, reSyncConfig, startCall,
    frames, timeoutConfig, timeoutCall, stdout, audit>>

vars == <<smVars, clientVars>>

----------------------------------------------------------------------------
(* Bounds of the model *)

MaxListeners == 2
MaxCalls == 2
MaxOtherCalls == 2
ScriptExtra == 3
MaxRequests == 5
MaxRetries == 2
MaxSteps == 5

Listeners == 1..MaxListeners

\* the listeners whose callback raises
Throwing == {1}

----------------------------------------------------------------------------
(* types.ts: ConnectionState *)

DISCONNECTED == "disconnected"
CONNECTING == "connecting"
CONNECTED == "connected"
TIMEOUT_RETRYING == "timeout_retrying"
ERROR == "error"

ConnectionState == {DISCONNECTED, CONNECTING, CONNECTED, TIMEOUT_RETRYING, ERROR}

\* Partial<ConnectionStatus> as passed by the callers: an optional field is
\* the empty set when absent and a singleton when present
NoDetails == [message |-> {}, retryCount |-> {}, lastError |-> {}]

The(S) == CHOOSE x \in S : TRUE

Range(s) == {s[i] : i \in DOMAIN s}

----------------------------------------------------------------------------
(* ConnectionStateManager *)

VALID_TRANSITIONS ==
  [s \in ConnectionState |->
     CASE s = DISCONNECTED -> <<CONNECTING, ERROR>>
       [] s = CONNECTING -> <<CONNECTED, ERROR, DISCONNECTED>>
       [] s = CONNECTED -> <<TIMEOUT_RETRYING, DISCONNECTED, ERROR>>
       [] s = TIMEOUT_RETRYING -> <<CONNECTED, ERROR, DISCONNECTED>>
       [] s = ERROR -> <<CONNECTING, DISCONNECTED>>]

maxHistorySize == 50

isValidTransitionNoSelf(from, to) ==
  to \in Range(VALID_TRANSITIONS[from])

isValidTransition(from, to) ==
  \/ from = to
  \/ to \in Range(VALID_TRANSITIONS[from])

getStateMessage(s) ==
  CASE s = DISCONNECTED -> "Disconnected from server"
    [] s = CONNECTING -> "Connecting to server"
    [] s = CONNECTED -> "Connected to server"
    [] s = TIMEOUT_RETRYING -> "Connection timeout, retrying"
    [] s = ERROR -> "Connection error"
    [] OTHER -> "Unknown state"

addToHistoryKeepOldest(statusHistory, status) ==
  LET h == Append(statusHistory, status)
  IN IF Len(h) > maxHistorySize THEN SubSeq(h, 1, maxHistorySize) ELSE h

addToHistory(statusHistory, status) ==
  LET h == Append(statusHistory, status)
  IN IF Len(h) > maxHistorySize
       THEN SubSeq(h, Len(h) - maxHistorySize + 1, Len(h))
       ELSE h

\* the for-loop of notifyListeners from position i of the listener set (a
\* JavaScript Set iterates in insertion order); r.raised is an exception
\* that left the loop
RECURSIVE NotifyFrom(_, _, _, _)
NotifyFrom(listeners, i, status, r) ==
  IF i > Len(listeners) THEN r
  ELSE NotifyFrom(listeners, i + 1, status,
         [r EXCEPT !.delivered[listeners[i]] = Append(@, status)])

RECURSIVE NotifyFromUncaught(_, _, _, _)
NotifyFromUncaught(listeners, i, status, r) ==
  IF i > Len(listeners) THEN r
  ELSE IF listeners[i] \in Throwing
    THEN [delivered |-> [r.delivered EXCEPT ![listeners[i]] = Append(@, status)],
          raised |-> TRUE]
    ELSE NotifyFromUncaught(listeners, i + 1, status,
           [r EXCEPT !.delivered[listeners[i]] = Append(@, status)])

notifyListenersUncaught(W, status) ==
  LET r == NotifyFromUncaught(W.stateManager.listeners, 1, status,
                              [delivered |-> W.delivered, raised |-> FALSE])
  IN [W EXCEPT !.delivered = r.delivered,
               !.threw = r.raised,
               !.thrown = IF r.raised THEN "listener error" ELSE W.thrown]

notifyListenersFreshStamp(W, status) ==
  [W EXCEPT !.delivered =
     [l \in Listeners |->
        IF l \in Range(W.stateManager.listeners)
          THEN Append(W.delivered[l],
                 [status EXCEPT !.timestamp =
                    @ + (CHOOSE i \in DOMAIN W.stateManager.listeners :
                           W.stateManager.listeners[i] = l) - 1])
          ELSE W.delivered[l]]]

notifyListeners(W, status) ==
  LET r == NotifyFrom(W.stateManager.listeners, 1, status,
                      [delivered |-> W.delivered, raised |-> FALSE])
  IN [W EXCEPT !.delivered = r.delivered]

\* the status object setState builds: the computed fields, overridden by the
\* fields present in details
StatusOf(sm, to, details, time) ==
  [state |-> to,
   message |-> IF details.message # {} THEN The(details.message)
               ELSE getStateMessage(to),
   serverProcessRunning |-> sm.serverProcessRunning,
   timestamp |-> time,
   retryCount |-> details.retryCount,
   lastError |-> details.lastError]

setStatePartial(W, to, details) ==
  LET sm == W.stateManager
      msg == IF details.message # {} /\ The(details.message) # ""
               THEN The(details.message) ELSE getStateMessage(to)
      status == StatusOf(sm, to, details, W.now)
      W1 == [W EXCEPT !.stateManager.state = to,
                      !.stateManager.currentMessage = msg,
                      !.stateManager.statusHistory = addToHistory(@, status)]
  IN IF ~isValidTransition(sm.state, to)
       THEN [W1 EXCEPT !.threw = TRUE,
               !.thrown = "Invalid state transition from " \o sm.state
                            \o " to " \o to]
       ELSE notifyListeners([W1 EXCEPT !.threw = FALSE], status)

setStateSkipSame(W, to, details) ==
  LET sm == W.stateManager
      msg == IF details.message # {} /\ The(details.message) # ""
               THEN The(details.message) ELSE getStateMessage(to)
      status == StatusOf(sm, to, details, W.now)
  IN IF ~isValidTransition(sm.state, to)
       THEN [W EXCEPT !.threw = TRUE,
               !.thrown = "Invalid state transition from " \o sm.state
                            \o " to " \o to]
     ELSE IF sm.state = to THEN [W EXCEPT !.threw = FALSE]
       ELSE notifyListeners(
              [W EXCEPT !.threw = FALSE,
                        !.stateManager.state = to,
                        !.stateManager.currentMessage = msg,
                        !.stateManager.statusHistory = addToHistory(@, status)],
              status)

setState(W, to, details) ==
  LET sm == W.stateManager
      msg == IF details.message # {} /\ The(details.message) # ""
               THEN The(details.message) ELSE getStateMessage(to)
      status == StatusOf(sm, to, details, W.now)
  IN IF ~isValidTransition(sm.state, to)
       THEN [W EXCEPT !.threw = TRUE,
               !.thrown = "Invalid state transition from " \o sm.state
                            \o " to " \o to]
       ELSE notifyListeners(
              [W EXCEPT !.threw = FALSE,
                        !.stateManager.state = to,
                        !.stateManager.currentMessage = msg,
                        !.stateManager.statusHistory = addToHistory(@, status)],
              status)

onStateChange(W, l) ==
  [W EXCEPT !.stateManager.listeners =
     IF l \in Range(@) THEN @ ELSE Append(@, l)]

dispose(W, l) ==
  [W EXCEPT !.stateManager.listeners = SelectSeq(@, LAMBDA x : x # l)]

setServerProcessRunning(W, running) ==
  [W EXCEPT !.stateManager.serverProcessRunning = running]

\* the state after new ConnectionStateManager() at time t
NewStateManager(t) ==
  [state |-> DISCONNECTED,
   listeners |-> <<>>,
   statusHistory |-> addToHistory(<<>>,
      [state |-> DISCONNECTED, message |-> "Initial state",
       serverProcessRunning |-> FALSE, timestamp |-> t,
       retryCount |-> {}, lastError |-> {}]),
   serverProcessRunning |-> FALSE,
   currentMessage |-> "Initial state"]

----------------------------------------------------------------------------
(* TimeoutManager *)

DEFAULT_TIMEOUT_CONFIG ==
  [initializationTimeoutMs |-> 60000,
   standardRequestTimeoutMs |-> 30000,
   toolsListTimeoutMs |-> 60000]

MIN_TIMEOUT_MS == 1000

MAX_TIMEOUT_MS == 300000

getTimeoutForRequestFolded(config, method) ==
  IF method \in {"initialize", "Initialize"} THEN config.initializationTimeoutMs
  ELSE IF method = "tools/list" THEN config.toolsListTimeoutMs
  ELSE config.standardRequestTimeoutMs

getTimeoutForRequest(config, method) ==
  IF method = "initialize" THEN config.initializationTimeoutMs
  ELSE IF method = "tools/list" THEN config.toolsListTimeoutMs
  ELSE config.standardRequestTimeoutMs

\* the JavaScript values a field of a timeout configuration may hold:
\* undefined, a value that is not a number, the integer n, or the
\* non-integer number n + 1/2
Undefined == [type |-> "undefined", n |-> 0, half |-> FALSE]
NotANumber == [type |-> "string", n |-> 0, half |-> FALSE]
Num(n) == [type |-> "number", n |-> n, half |-> FALSE]
Half(n) == [type |-> "number", n |-> n, half |-> TRUE]

\* v < k, v > k and Number.isInteger(v) for a number v and an integer k
LessThan(v, k) == v.n < k
GreaterThan(v, k) == IF v.half THEN v.n >= k ELSE v.n > k
isInteger(v) == ~v.half

\* the fields of a TimeoutConfig, in the order validateConfig visits them
TimeoutFields ==
  <<"initializationTimeoutMs", "standardRequestTimeoutMs", "toolsListTimeoutMs">>

\* the value below which validateConfig warns, and the warning
WarnBelow(f) == IF f = "standardRequestTimeoutMs" THEN 5000 ELSE 10000

WarnText(f) ==
  IF f = "initializationTimeoutMs"
    THEN f \o " is less than 10 seconds, which may be too short for slow servers"
  ELSE IF f = "standardRequestTimeoutMs"
    THEN f \o " is less than 5 seconds, which may be too short for some operations"
  ELSE f \o " is less than 10 seconds, which may be too short for servers with many tools"

\* a configuration object without own properties
NoConfig == [f \in {} |-> Undefined]

\* config.f !== undefined; a partial configuration is a function from the
\* fields it has as own properties to their values
IsDefined(config, f) == f \in DOMAIN config /\ config[f].type # "undefined"

\* one block of validateConfig: the errors it pushes for field f
FieldErrors(config, f) ==
  IF ~IsDefined(config, f) THEN <<>>
  ELSE IF config[f].type # "number" THEN <<f \o " must be a number">>
  ELSE IF LessThan(config[f], MIN_TIMEOUT_MS)
    THEN <<f \o " must be at least " \o ToString(MIN_TIMEOUT_MS) \o "ms">>
  ELSE IF GreaterThan(config[f], MAX_TIMEOUT_MS)
    THEN <<f \o " must not exceed " \o ToString(MAX_TIMEOUT_MS) \o "ms">>
  ELSE IF ~isInteger(config[f]) THEN <<f \o " must be an integer">>
  ELSE <<>>

\* one block of validateConfig: the warnings it pushes for field f
FieldWarnings(config, f) ==
  IF IsDefined(config, f) /\ FieldErrors(config, f) = <<>>
       /\ LessThan(config[f], WarnBelow(f))
    THEN <<WarnText(f)>>
    ELSE <<>>

validateConfig(config) ==
  LET errors == FieldErrors(config, TimeoutFields[1])
                  \o FieldErrors(config, TimeoutFields[2])
                  \o FieldErrors(config, TimeoutFields[3])
      warnings == FieldWarnings(config, TimeoutFields[1])
                    \o FieldWarnings(config, TimeoutFields[2])
                    \o FieldWarnings(config, TimeoutFields[3])
  IN [valid |-> Len(errors) = 0, errors |-> errors, warnings |-> warnings]

\* errors.join(", ")
RECURSIVE Join(_)
Join(errors) ==
  IF errors = <<>> THEN ""
  ELSE IF Len(errors) = 1 THEN errors[1]
  ELSE errors[1] \o ", " \o Join(Tail(errors))

\* { ...config, ...partial }
Merge(config, partial) ==
  [f \in DOMAIN config \cup DOMAIN partial |->
     IF f \in DOMAIN partial THEN partial[f] ELSE config[f]]

updateConfigUnchecked(W, config) ==
  [W EXCEPT !.threw = FALSE, !.timeoutConfig = Merge(@, config)]

updateConfig(W, config) ==
  LET validation == validateConfig(config)
  IN IF ~validation.valid
       THEN [W EXCEPT !.threw = TRUE,
                      !.thrown = "Invalid timeout configuration: "
                                   \o Join(validation.errors)]
       ELSE [W EXCEPT !.threw = FALSE, !.timeoutConfig = Merge(@, config)]

\* new TimeoutManager(config): config is the partial configuration passed,
\* the empty one when none is passed
NewTimeoutManager(W, config) ==
  updateConfig([W EXCEPT !.timeoutConfig =
                  [f \in Range(TimeoutFields) |-> Num(DEFAULT_TIMEOUT_CONFIG[f])]],
               config)

----------------------------------------------------------------------------
(* BaseMCPClient: futures, the continuation queue and the request registry *)

\* who awaits the future of a request: the subclass that called sendRequest
\* or callTool, start() (awaiting sendInitialize), or the attemptReSync call
\* made by the timeout handler of request `frame`
Caller == [kind |-> "caller", frame |-> 0]
StartWaiter == [kind |-> "start", frame |-> 0]
ReSyncWaiter(r) == [kind |-> "resync", frame |-> r]

\* a promise continuation that is ready to run
Continuation(kind, frame, stage, ok, err) ==
  [kind |-> kind, frame |-> frame, stage |-> stage, ok |-> ok, err |-> err]

\* resolve(value) / reject(error) on the future of request id, called by
\* `by`; a settled promise ignores later calls; settling makes the awaiting
\* continuation ready
Settle(W, id, ok, reason, by) ==
  LET W1 == [W EXCEPT !.settleCalls[id] = Append(@, by)]
      w == W.awaiting[id]
  IN IF W.future[id].status # "pending" THEN W1
     ELSE [W1 EXCEPT
             !.future[id].status = IF ok THEN "resolved" ELSE "rejected",
             !.future[id].reason = reason,
             !.future[id].by = by,
             !.mq = IF w.kind = "start"
                      THEN Append(@, Continuation("start", 0, "initialized", ok, reason))
                    ELSE IF w.kind = "resync"
                      THEN Append(@, Continuation("resync", w.frame, "", ok, reason))
                    ELSE @]

Without(f, id) == [i \in (DOMAIN f) \ {id} |-> f[i]]

With(f, id, v) == [i \in (DOMAIN f) \cup {id} |-> IF i = id THEN v ELSE f[i]]

\* clearTimeout(pending.timeoutHandle); this.pendingRequests.delete(id)
CancelAndDelete(W, id) ==
  [W EXCEPT !.timers = @ \ {id},
            !.pendingRequests = Without(@, id),
            !.removed[id] = @ + 1]

CancelOnly(W, id) ==
  [W EXCEPT !.timers = @ \ {id}]

AllocateIdReusing(n) == IF n >= 2 THEN 1 ELSE n + 1

\* ++this.requestId
AllocateId(n) == n + 1

isServerProcessAlive(W) ==
  /\ W.serverProcess # 0
  /\ W.procs[W.serverProcess].status = "running"

TimeoutMessage(method) ==
  "Request timeout after "
    \o ToString(getTimeoutForRequest(DEFAULT_TIMEOUT_CONFIG, method))
    \o "ms: " \o method

\* sendRequest(method, params): the id, the timer, the registry entry and the
\* write to the process; sendToServer raising inside the promise executor
\* rejects the promise that sendRequest returns
sendRequest(W, method, waiter) ==
  LET id == AllocateId(W.requestId)
  IN IF id > MaxRequests THEN [W EXCEPT !.overflow = TRUE]
     ELSE
       LET W1 == [W EXCEPT
                    !.requestId = id,
                    !.issued = Append(@, id),
                    !.timers = @ \cup {id},
                    !.pendingRequests = With(@, id, [method |-> method]),
                    !.future[id] = [status |-> "pending", reason |-> "",
                                    by |-> "", method |-> method],
                    !.awaiting[id] = waiter,
                    !.lastSent = id]
       IN IF W1.serverProcess = 0
            THEN Settle(W1, id, FALSE, "Server process not available", "send")
            ELSE [W1 EXCEPT !.sentTo[id] = W1.serverProcess]

handleMessageKeepEntry(W, id, isError) ==
  IF id # 0 /\ id \in DOMAIN W.pendingRequests
    THEN IF isError
           THEN Settle(CancelOnly(W, id), id, FALSE, "server error", "response")
           ELSE Settle(CancelOnly(W, id), id, TRUE, "", "response")
    ELSE W

handleMessageAnyId(W, id, isError) ==
  IF id # 0
    THEN IF isError
           THEN Settle(CancelAndDelete(W, id), id, FALSE, "server error", "response")
           ELSE Settle(CancelAndDelete(W, id), id, TRUE, "", "response")
    ELSE W

\* handleMessage(message): id = 0 stands for a message without id
handleMessage(W, id, isError) ==
  IF id # 0 /\ id \in DOMAIN W.pendingRequests
    THEN IF isError
           THEN Settle(CancelAndDelete(W, id), id, FALSE, "server error", "response")
           ELSE Settle(CancelAndDelete(W, id), id, TRUE, "", "response")
    ELSE W

Min(S) == CHOOSE x \in S : \A y \in S : x <= y

\* the for-loop of clearPendingRequests over the Map (insertion order is id
\* order); todo is the set of keys not yet visited
RECURSIVE RejectAll(_, _)
RejectAll(W, todo) ==
  IF todo = {} THEN W
  ELSE LET id == Min(todo)
       IN RejectAll(Settle(CancelOnly(W, id), id, FALSE, "Connection closed", "flush"),
                    todo \ {id})

RECURSIVE RejectAllKeepTimers(_, _)
RejectAllKeepTimers(W, todo) ==
  IF todo = {} THEN W
  ELSE LET id == Min(todo)
       IN RejectAllKeepTimers(Settle(W, id, FALSE, "Connection closed", "flush"),
                              todo \ {id})

clearPendingRequestsKeepTimers(W) ==
  LET ids == DOMAIN W.pendingRequests
      W1 == RejectAllKeepTimers(W, ids)
  IN [W1 EXCEPT !.pendingRequests = [i \in {} |-> [method |-> ""]],
                !.removed = [i \in DOMAIN @ |-> IF i \in ids THEN @[i] + 1 ELSE @[i]],
                !.flushed = @ \cup ids,
                !.flushes = @ + 1]

clearPendingRequests(W) ==
  LET ids == DOMAIN W.pendingRequests
      W1 == RejectAll(W, ids)
  IN [W1 EXCEPT !.pendingRequests = [i \in {} |-> [method |-> ""]],
                !.removed = [i \in DOMAIN @ |-> IF i \in ids THEN @[i] + 1 ELSE @[i]],
                !.flushed = @ \cup ids,
                !.flushes = @ + 1]

----------------------------------------------------------------------------
(* ReSyncManager *)

DEFAULT_RESYNC_CONFIG ==
  [maxRetries |-> 3, retryDelayMs |-> 2000, backoffNum |-> 3, backoffDen |-> 2]

RECURSIVE Pow(_, _)
Pow(b, e) == IF e <= 0 THEN 1 ELSE b * Pow(b, e - 1)

shouldRetryOnceMore(W) == W.currentAttempt <= W.reSyncConfig.maxRetries

shouldRetry(W) == W.currentAttempt < W.reSyncConfig.maxRetries

\* retryDelayMs * backoffMultiplier ^ (currentAttempt - 1); the multiplier is
\* the fraction backoffNum / backoffDen
getNextRetryDelay(W) ==
  LET exponent == W.currentAttempt - 1
  IN (W.reSyncConfig.retryDelayMs * Pow(W.reSyncConfig.backoffNum, exponent))
       \div Pow(W.reSyncConfig.backoffDen, exponent)

reset(W) == [W EXCEPT !.currentAttempt = 0, !.exhausted = FALSE]

\* the activation record of an attemptReSync call; mark and alone are
\* bookkeeping for the properties: the length of the status history when the
\* call was entered, and whether no other call was in progress during it
NoFrame ==
  [pc |-> "none", startAttempt |-> 0, child |-> 0, delay |-> 0,
   success |-> FALSE, attempts |-> 0, error |-> "",
   mark |-> 0, alone |-> TRUE]

\* the attemptReSync calls that have not returned
InProgress(W) ==
  {q \in DOMAIN W.frames : W.frames[q].pc \in {"loop", "sleep", "wait"}}

\* attemptReSync returns to the handleTimeout call of request r that awaits it
ReSyncReturn(W, r, success, attempts, err) ==
  [W EXCEPT !.frames[r].pc = "returned",
            !.frames[r].success = success,
            !.frames[r].attempts = attempts,
            !.frames[r].error = err,
            !.exhausted = IF success THEN @ ELSE TRUE,
            !.mq = Append(@, Continuation("returned", r, "", success, err))]

\* await sendInitialize() inside attemptReSync
ReSyncSend(W, r) ==
  LET W1 == sendRequest(W, "initialize", ReSyncWaiter(r))
  IN [W1 EXCEPT !.frames[r].pc = "wait",
                !.frames[r].child = W1.lastSent,
                !.reissued = Append(@, W1.lastSent)]

RECURSIVE ReSyncLoop(_, _)
RECURSIVE ReSyncCatch(_, _, _)

\* the catch block of attemptReSync
ReSyncCatch(W, r, err) ==
  IF ~shouldRetry(W)
    THEN LET attempts == W.currentAttempt - W.frames[r].startAttempt
             W1 == setState(W, ERROR,
                      [message |-> {"Re-synchronization failed after "
                                      \o ToString(attempts) \o " attempts"},
                       retryCount |-> {}, lastError |-> {err}])
         IN ReSyncReturn(W1, r, FALSE, attempts, err)
    ELSE ReSyncLoop(W, r)

\* the while loop of attemptReSync from its test, up to the first await
ReSyncLoop(W, r) ==
  IF ~shouldRetry(W)
    THEN ReSyncReturn(W, r, FALSE, W.currentAttempt - W.frames[r].startAttempt,
                      "Max retries exceeded")
    ELSE LET W1 == [W EXCEPT !.currentAttempt = @ + 1]
             W2 == setState(W1, TIMEOUT_RETRYING,
                      [message |-> {"Re-synchronization attempt "
                                      \o ToString(W1.currentAttempt) \o "/"
                                      \o ToString(W1.reSyncConfig.maxRetries)},
                       retryCount |-> {W1.currentAttempt}, lastError |-> {}])
         IN IF W2.threw THEN ReSyncCatch(W2, r, W2.thrown)
            ELSE IF W1.currentAttempt > 1
              THEN [W2 EXCEPT !.frames[r].pc = "sleep",
                              !.frames[r].delay = getNextRetryDelay(W2)]
              ELSE ReSyncSend(W2, r)

ReSyncResumeNoReset(W, r, ok, err) ==
  IF ok
    THEN LET attempts == W.currentAttempt - W.frames[r].startAttempt
             W2 == setState(W, CONNECTED,
                      [message |-> {"Re-synchronization successful"},
                       retryCount |-> {}, lastError |-> {}])
         IN IF W2.threw THEN ReSyncCatch(W2, r, W2.thrown)
            ELSE ReSyncReturn(W2, r, TRUE, attempts, "")
    ELSE ReSyncCatch(W, r, err)

\* attemptReSync resumes when the handshake it awaits has settled
ReSyncResume(W, r, ok, err) ==
  IF ok
    THEN LET attempts == W.currentAttempt - W.frames[r].startAttempt
             W1 == reset(W)
             W2 == setState(W1, CONNECTED,
                      [message |-> {"Re-synchronization successful"},
                       retryCount |-> {}, lastError |-> {}])
         IN IF W2.threw THEN ReSyncCatch(W2, r, W2.thrown)
            ELSE ReSyncReturn(W2, r, TRUE, attempts, "")
    ELSE ReSyncCatch(W, r, err)

\* attemptReSync resumes when its sleep(delay) timer has fired
ReSyncWake(W, r) == ReSyncSend(W, r)

attemptReSyncDoWhile(W, r) ==
  LET others == InProgress(W) \ {r}
      W1 == [W EXCEPT !.frames =
               [q \in DOMAIN @ |->
                  IF q = r
                    THEN [NoFrame EXCEPT
                            !.pc = "loop",
                            !.startAttempt = W.currentAttempt,
                            !.mark = Len(W.stateManager.statusHistory),
                            !.alone = (others = {})]
                  ELSE IF q \in others THEN [@[q] EXCEPT !.alone = FALSE]
                  ELSE @[q]],
                      !.currentAttempt = @ + 1]
      W2 == setState(W1, TIMEOUT_RETRYING,
               [message |-> {"Re-synchronization attempt "
                               \o ToString(W1.currentAttempt) \o "/"
                               \o ToString(W1.reSyncConfig.maxRetries)},
                retryCount |-> {W1.currentAttempt}, lastError |-> {}])
  IN IF W2.threw THEN ReSyncCatch(W2, r, W2.thrown)
     ELSE IF W1.currentAttempt > 1
       THEN [W2 EXCEPT !.frames[r].pc = "sleep",
                       !.frames[r].delay = getNextRetryDelay(W2)]
       ELSE ReSyncSend(W2, r)

attemptReSync(W, r) ==
  LET others == InProgress(W) \ {r}
      W1 == [W EXCEPT !.frames =
               [q \in DOMAIN @ |->
                  IF q = r
                    THEN [NoFrame EXCEPT
                            !.pc = "loop",
                            !.startAttempt = W.currentAttempt,
                            !.mark = Len(W.stateManager.statusHistory),
                            !.alone = (others = {})]
                  ELSE IF q \in others THEN [@[q] EXCEPT !.alone = FALSE]
                  ELSE @[q]]]
  IN ReSyncLoop(W1, r)

----------------------------------------------------------------------------
(* BaseMCPClient: timeout handling, process events and lifecycle *)

Message(text) == [message |-> {text}, retryCount |-> {}, lastError |-> {}]

handleTimeoutAnyMethod(W, r) ==
  LET W1 == IF r \in DOMAIN W.pendingRequests THEN CancelAndDelete(W, r) ELSE W
  IN IF ~isServerProcessAlive(W1)
       THEN [setState(W1, ERROR,
               Message("Server process exited during initialization"))
             EXCEPT !.mq = Append(@, Continuation("reject", r, "", FALSE, ""))]
       ELSE attemptReSync(W1, r)

handleTimeoutNoAliveCheck(W, r) ==
  LET method == W.future[r].method
      W1 == IF r \in DOMAIN W.pendingRequests THEN CancelAndDelete(W, r) ELSE W
  IN IF method = "initialize"
       THEN attemptReSync(W1, r)
       ELSE [W1 EXCEPT !.mq = Append(@, Continuation("reject", r, "", FALSE, ""))]

handleTimeoutKeepEntry(W, r) ==
  LET method == W.future[r].method
  IN IF method = "initialize"
       THEN IF ~isServerProcessAlive(W)
              THEN [setState(W, ERROR,
                      Message("Server process exited during initialization"))
                    EXCEPT !.mq = Append(@, Continuation("reject", r, "", FALSE, ""))]
              ELSE attemptReSync(W, r)
       ELSE [W EXCEPT !.mq = Append(@, Continuation("reject", r, "", FALSE, ""))]

\* the timer callback of request r: handleTimeout(r, method) up to its first
\* await; the callback rejects the future once handleTimeout has returned
handleTimeout(W, r) ==
  LET method == W.future[r].method
      W1 == IF r \in DOMAIN W.pendingRequests THEN CancelAndDelete(W, r) ELSE W
  IN IF method = "initialize"
       THEN IF ~isServerProcessAlive(W1)
              THEN [setState(W1, ERROR,
                      Message("Server process exited during initialization"))
                    EXCEPT !.mq = Append(@, Continuation("reject", r, "", FALSE, ""))]
              ELSE attemptReSync(W1, r)
       ELSE [W1 EXCEPT !.mq = Append(@, Continuation("reject", r, "", FALSE, ""))]

\* handleTimeout after attemptReSync has returned, then the callback's reject
handleTimeoutReturned(W, r, success, err) ==
  LET W1 == IF ~success
              THEN [W EXCEPT !.lastError =
                      {IF err # "" THEN err ELSE "Re-synchronization failed"}]
              ELSE W
  IN Settle([W1 EXCEPT !.frames[r].pc = "done"], r, FALSE,
            TimeoutMessage(W.future[r].method), "timeout")

ExitMessage(code, signal) ==
  IF signal # "" THEN "Server process killed by signal: " \o signal
  ELSE IF code # "" THEN "Server process exited with code: " \o code
  ELSE "Server process exited unexpectedly"

handleServerExitNoFlush(W, code, signal) ==
  LET W1 == setServerProcessRunning(W, FALSE)
      W2 == [W1 EXCEPT !.lastError = {ExitMessage(code, signal)}]
  IN setState(W2, DISCONNECTED, Message(ExitMessage(code, signal)))

handleServerExitKeepState(W, code, signal) ==
  LET W1 == setServerProcessRunning(W, FALSE)
      W2 == [W1 EXCEPT !.lastError = {ExitMessage(code, signal)}]
  IN clearPendingRequests(W2)

handleServerExit(W, code, signal) ==
  LET W1 == setServerProcessRunning(W, FALSE)
      W2 == [W1 EXCEPT !.lastError = {ExitMessage(code, signal)}]
      W3 == clearPendingRequests(W2)
  IN setState(W3, DISCONNECTED, Message(ExitMessage(code, signal)))

handleServerError(W, error) ==
  setState([W EXCEPT !.lastError = {error}], ERROR,
           [message |-> {"Server process error: " \o error},
            retryCount |-> {}, lastError |-> {error}])

\* start() settles its promise; reconnect(), when it made the call, returns
\* whether start() succeeded
StartDone(W, result, err, caught) ==
  [W EXCEPT !.startCall.pc = "idle",
            !.startCall.result = result,
            !.startCall.error = err,
            !.startCall.caught = caught,
            !.startCall.reconnected =
               IF W.startCall.viaReconnect
                 THEN (IF result = "ok" THEN "true" ELSE "false")
                 ELSE @]

\* the catch block of start()
StartCatch(W, err) ==
  StartDone(setState([W EXCEPT !.lastError = {err}], ERROR,
              [message |-> {"Failed to start server: " \o err},
               retryCount |-> {}, lastError |-> {err}]),
            "failed", err, TRUE)

\* start() up to its first await: the transition to Connecting (outside the
\* try block) and the synchronous body of spawnServerProcess; spawn is what
\* child_process.spawn does: "throws", or a process that is "running" or
\* that "failed" to launch
start(W, spawn, via) ==
  LET W1 == [W EXCEPT !.isStopping = FALSE,
                      !.starts = @ + 1,
                      !.startCall = [pc |-> "spawning", req |-> 0,
                                     result |-> "pending", error |-> "",
                                     caught |-> FALSE, viaReconnect |-> via,
                                     reconnected |-> "none"]]
      W2 == setState(W1, CONNECTING, Message("Starting server process"))
      p == W.spawned + 1
  IN IF W2.threw
       THEN StartDone(W2, "failed", W2.thrown, FALSE)
     ELSE IF spawn = "throws"
       THEN [W2 EXCEPT !.mq = Append(@,
               Continuation("start", 0, "spawned", FALSE,
                            "Failed to spawn server: spawn failed"))]
     ELSE [setServerProcessRunning(
             [W2 EXCEPT !.spawned = p,
                        !.serverProcess = p,
                        !.procs[p] = [status |-> spawn, attached |-> TRUE,
                                      errored |-> FALSE]], TRUE)
           EXCEPT !.mq = Append(@, Continuation("start", 0, "spawned", TRUE, ""))]

\* start() resumes after an await
StartResume(W, k) ==
  IF ~k.ok THEN StartCatch(W, k.err)
  ELSE IF k.stage = "spawned"
    THEN LET W1 == sendRequest(W, "initialize", StartWaiter)
         IN [W1 EXCEPT !.startCall.pc = "init", !.startCall.req = W1.lastSent]
  ELSE [W EXCEPT !.startCall.pc = "ready", !.readyCalls = @ + 1]

\* start() resumes after await onServerReady()
StartReady(W, ok) ==
  IF ~ok THEN StartCatch(W, "Server ready failed")
  ELSE LET W1 == setState(W, CONNECTED, Message("Server connected and ready"))
       IN IF W1.threw THEN StartCatch(W1, W1.thrown)
          ELSE StartDone(W1, "ok", "", FALSE)

stopKeepHandle(W) ==
  LET W1 == clearPendingRequests([W EXCEPT !.isStopping = TRUE, !.stops = @ + 1])
      p == W1.serverProcess
      W2 == IF p # 0
              THEN [W1 EXCEPT !.procs[p].attached = FALSE,
                              !.procs[p].status =
                                 IF @ = "running" THEN "killed" ELSE @,
                              !.stopped = @ \cup {p}]
              ELSE W1
  IN setState(setServerProcessRunning(W2, FALSE), DISCONNECTED,
              Message("Server stopped"))

stopKeepListeners(W) ==
  LET W1 == clearPendingRequests([W EXCEPT !.isStopping = TRUE, !.stops = @ + 1])
      p == W1.serverProcess
      W2 == IF p # 0
              THEN [W1 EXCEPT !.procs[p].status =
                                 IF @ = "running" THEN "killed" ELSE @,
                              !.serverProcess = 0,
                              !.stopped = @ \cup {p}]
              ELSE W1
  IN setState(setServerProcessRunning(W2, FALSE), DISCONNECTED,
              Message("Server stopped"))

\* stop(): the flush, removeAllListeners() on the process and its streams,
\* kill() if the process is alive (its exit event follows later), the handle
\* dropped, then the transition to Disconnected
stop(W) ==
  LET W1 == clearPendingRequests([W EXCEPT !.isStopping = TRUE, !.stops = @ + 1])
      p == W1.serverProcess
      W2 == IF p # 0
              THEN [W1 EXCEPT !.procs[p].attached = FALSE,
                              !.procs[p].status =
                                 IF @ = "running" THEN "killed" ELSE @,
                              !.serverProcess = 0,
                              !.stopped = @ \cup {p}]
              ELSE W1
  IN setState(setServerProcessRunning(W2, FALSE), DISCONNECTED,
              Message("Server stopped"))

\* the exit event of process p: it runs the handler that start() attached,
\* if that listener is still attached
exitEvent(W, p, code, signal) ==
  LET W1 == [W EXCEPT !.procs[p].status = "exited"]
  IN IF W.procs[p].attached THEN handleServerExit(W1, code, signal) ELSE W1

\* the error event of process p
errorEvent(W, p, error) ==
  LET W1 == [W EXCEPT !.procs[p].errored = TRUE]
  IN IF W.procs[p].attached THEN handleServerError(W1, error) ELSE W1

reconnectNoReset(W, spawn) == start(stop(W), spawn, TRUE)

\* reconnect() up to the first await of start(); StartDone gives its result
reconnect(W, spawn) == start(reset(stop(W)), spawn, TRUE)

RunContinuation(W, k) ==
  CASE k.kind = "start" -> StartResume(W, k)
    [] k.kind = "resync" -> ReSyncResume(W, k.frame, k.ok, k.err)
    [] k.kind = "returned" -> handleTimeoutReturned(W, k.frame, k.ok, k.err)
    [] k.kind = "reject" ->
         Settle(W, k.frame, FALSE, TimeoutMessage(W.future[k.frame].method), "timeout")

\* run the ready continuations, oldest first, until none is left
RECURSIVE Drain(_)
Drain(W) ==
  IF W.mq = <<>> \/ W.overflow THEN W
  ELSE Drain(RunContinuation([W EXCEPT !.mq = Tail(@)], Head(W.mq)))

----------------------------------------------------------------------------
(* The stdout handler of a spawned process. Bytes are "LF" (newline), "SP"  *)
(* (space), "{", "}", "2" and the UTF-8 encoding "C3" "A9" of U+00E9; a     *)
(* text is a sequence of characters                                         *)

Max(S) == CHOOSE x \in S : \A y \in S : x >= y

\* data.toString(): the UTF-8 decoding of one chunk on its own; a lead byte
\* without its continuation byte, and a continuation byte without its lead
\* byte, decode to the replacement character U+FFFD
RECURSIVE toString(_)
toString(data) ==
  IF data = <<>> THEN <<>>
  ELSE IF Head(data) = "C3"
    THEN IF Len(data) >= 2 /\ data[2] = "A9"
           THEN <<"U+00E9">> \o toString(SubSeq(data, 3, Len(data)))
           ELSE <<"U+FFFD">> \o toString(Tail(data))
  ELSE IF Head(data) = "A9" THEN <<"U+FFFD">> \o toString(Tail(data))
  ELSE <<Head(data)>> \o toString(Tail(data))

\* text.split("\n")
RECURSIVE split(_)
split(text) ==
  LET breaks == {i \in DOMAIN text : text[i] = "LF"}
  IN IF breaks = {} THEN <<text>>
     ELSE <<SubSeq(text, 1, Min(breaks) - 1)>>
            \o split(SubSeq(text, Min(breaks) + 1, Len(text)))

\* line.trim()
trim(line) ==
  LET inked == {i \in DOMAIN line : line[i] # "SP"}
  IN IF inked = {} THEN <<>> ELSE SubSeq(line, Min(inked), Max(inked))

\* JSON.parse(line) on the lines of this alphabet: white space around the
\* value is skipped; "{" ... "}" is an object whose id is 2 when a "2"
\* follows the brace and whose result is the text of the other characters;
\* everything else is a syntax error
JSONparse(line) ==
  LET t == trim(line)
      inner == SubSeq(t, 2, Len(t) - 1)
      hasId == inner # <<>> /\ Head(inner) = "2"
      result == IF hasId THEN Tail(inner) ELSE inner
      ok == /\ Len(t) >= 2
            /\ t[1] = "{"
            /\ t[Len(t)] = "}"
            /\ \A i \in DOMAIN result : result[i] \in {"U+00E9", "U+FFFD"}
  IN [threw |-> ~ok, id |-> IF ok /\ hasId THEN 2 ELSE 0,
      result |-> IF ok THEN result ELSE <<>>]

\* the for-loop over the complete lines: a non-blank line is parsed and the
\* message handed to handleMessage; a line that does not parse is logged
RECURSIVE DispatchLines(_, _)
DispatchLines(W, lines) ==
  IF lines = <<>> THEN W
  ELSE LET message == JSONparse(Head(lines))
           W1 == IF trim(Head(lines)) # <<>> /\ ~message.threw
                   THEN handleMessage(
                          [W EXCEPT !.stdout.dispatched =
                             Append(@, [id |-> message.id, result |-> message.result])],
                          message.id, FALSE)
                   ELSE W
       IN DispatchLines(W1, Tail(lines))

stdoutDataDropPartial(W, data) ==
  IF W.isStopping THEN W
  ELSE LET lines == split(W.stdout.buffer \o toString(data))
       IN DispatchLines([W EXCEPT !.stdout.buffer = <<>>],
                        SubSeq(lines, 1, Len(lines) - 1))

\* the "data" listener of serverProcess.stdout
stdoutData(W, data) ==
  IF W.isStopping THEN W
  ELSE LET lines == split(W.stdout.buffer \o toString(data))
       IN DispatchLines([W EXCEPT !.stdout.buffer = lines[Len(lines)]],
                        SubSeq(lines, 1, Len(lines) - 1))

----------------------------------------------------------------------------
(* The program state as one record, and its installation as the next state *)

Requests == 1..MaxRequests

\* every start() spawns at most one process
Processes == 1..MaxSteps

IdleStart ==
  [pc |-> "idle", req |-> 0, result |-> "none", error |-> "",
   caught |-> FALSE, viaReconnect |-> FALSE, reconnected |-> "none"]

\* bookkeeping of what has happened to each request, for the properties
NewAudit ==
  [issued |-> <<>>,
   removed |-> [i \in Requests |-> 0],
   settleCalls |-> [i \in Requests |-> <<>>],
   flushed |-> {},
   flushes |-> 0,
   stopped |-> {},
   fired |-> {},
   sentTo |-> [i \in Requests |-> 0],
   reissued |-> <<>>,
   lastSent |-> 0,
   spawned |-> 0,
   starts |-> 0,
   stops |-> 0,
   readyCalls |-> 0,
   exhausted |-> FALSE,
   steps |-> 0]

World ==
  [stateManager |-> stateManager, delivered |-> delivered, now |-> now,
   threw |-> FALSE, thrown |-> "", mq |-> <<>>, overflow |-> FALSE,
   requestId |-> requestId, pendingRequests |-> pendingRequests,
   timers |-> timers, future |-> future, awaiting |-> awaiting,
   serverProcess |-> serverProcess, procs |-> procs,
   isStopping |-> isStopping, lastError |-> lastError,
   currentAttempt |-> currentAttempt, reSyncConfig |-> reSyncConfig,
   startCall |-> startCall, frames |-> frames,
   timeoutConfig |-> timeoutConfig, timeoutCall |-> timeoutCall,
   stdout |-> stdout] @@ audit

Install(W) ==
  /\ ~W.overflow
  /\ stateManager' = W.stateManager
  /\ delivered' = W.delivered
  /\ requestId' = W.requestId
  /\ pendingRequests' = W.pendingRequests
  /\ timers' = W.timers
  /\ future' = W.future
  /\ awaiting' = W.awaiting
  /\ serverProcess' = W.serverProcess
  /\ procs' = W.procs
  /\ isStopping' = W.isStopping
  /\ lastError' = W.lastError
  /\ currentAttempt' = W.currentAttempt
  /\ reSyncConfig' = W.reSyncConfig
  /\ startCall' = W.startCall
  /\ frames' = W.frames
  /\ timeoutConfig' = W.timeoutConfig
  /\ timeoutCall' = W.timeoutCall
  /\ stdout' = W.stdout
  /\ audit' = [f \in DOMAIN audit |-> W[f]]

\* the state manager and the clock before anything has run
FreshWorld ==
  [stateManager |-> NewStateManager(0),
   delivered |-> [l \in Listeners |-> <<>>],
   now |-> 0, threw |-> FALSE, thrown |-> "", mq |-> <<>>, overflow |-> FALSE]

\* no call has been made on the timeout manager since it was built from the
\* partial configuration `built`
NoTimeoutCall(built) ==
  [op |-> "new", present |-> DOMAIN built, threw |-> FALSE,
   method |-> "", result |-> Undefined, other |-> Undefined,
   built |-> built, updated |-> FALSE]

\* a process that writes `stream` to its standard output, of which the first
\* `pos` bytes have been emitted; `let buffer = ""` of the stdout handler
OutputOf(stream) ==
  [stream |-> stream, pos |-> 0, buffer |-> <<>>, dispatched |-> <<>>]

NoOutput == OutputOf(<<>>)

\* the client after construction with the given re-sync configuration and
\* no timeout configuration
NewClient(config) ==
  FreshWorld @@ NewAudit @@
  [timeoutConfig |->
     NewTimeoutManager([threw |-> FALSE, thrown |-> "",
                        timeoutConfig |-> NoConfig], NoConfig).timeoutConfig,
   timeoutCall |-> NoTimeoutCall(NoConfig),
   stdout |-> NoOutput,
   requestId |-> 0,
   pendingRequests |-> [i \in {} |-> [method |-> ""]],
   timers |-> {},
   future |-> [i \in Requests |->
                 [status |-> "unissued", reason |-> "", by |-> "", method |-> ""]],
   awaiting |-> [i \in Requests |-> Caller],
   serverProcess |-> 0,
   procs |-> [p \in Processes |->
                [status |-> "unborn", attached |-> FALSE, errored |-> FALSE]],
   isStopping |-> FALSE,
   lastError |-> {},
   currentAttempt |-> 0,
   reSyncConfig |-> config,
   startCall |-> IdleStart,
   frames |-> [i \in Requests |-> NoFrame]]

\* the client's variables hold the client of W
ClientIs(W) ==
  /\ requestId = W.requestId
  /\ pendingRequests = W.pendingRequests
  /\ timers = W.timers
  /\ future = W.future
  /\ awaiting = W.awaiting
  /\ serverProcess = W.serverProcess
  /\ procs = W.procs
  /\ isStopping = W.isStopping
  /\ lastError = W.lastError
  /\ currentAttempt = W.currentAttempt
  /\ reSyncConfig = W.reSyncConfig
  /\ startCall = W.startCall
  /\ frames = W.frames
  /\ timeoutConfig = W.timeoutConfig
  /\ timeoutCall = W.timeoutCall
  /\ stdout = W.stdout
  /\ audit = [f \in DOMAIN NewAudit |-> W[f]]

----------------------------------------------------------------------------
(* The state manager on its own: any caller, any order of calls *)

DetailChoices ==
  {NoDetails,
   [message |-> {"custom"}, retryCount |-> {1}, lastError |-> {"boom"}]}

NewCall ==
  [op |-> "new", n |-> 0, m |-> 0, from |-> DISCONNECTED, to |-> DISCONNECTED,
   details |-> NoDetails, threw |-> FALSE, error |-> "",
   before |-> NewStateManager(0),
   beforeDelivered |-> [l \in Listeners |-> <<>>]]

\* a manager that has gone through the accepted calls of a sequence of targets
RECURSIVE Replay(_, _)
Replay(W, targets) ==
  IF targets = <<>> THEN W
  ELSE Replay([setState(W, Head(targets), NoDetails) EXCEPT !.now = @ + 1],
              Tail(targets))

\* one sequence of accepted calls leading to each state
Histories ==
  {<<>>, <<CONNECTING>>, <<CONNECTING, CONNECTED>>,
   <<CONNECTING, CONNECTED, TIMEOUT_RETRYING>>, <<ERROR>>}

\* the client on which the state manager's callers are not exercised
IdleClient == ClientIs(NewClient(DEFAULT_RESYNC_CONFIG))

InitStateManager ==
  /\ \E h \in Histories :
       LET W == Replay(FreshWorld, h)
       IN /\ stateManager = W.stateManager
          /\ now = W.now
          /\ occurred = W.stateManager.statusHistory
          /\ lastCall = [NewCall EXCEPT !.before = W.stateManager,
                                        !.from = W.stateManager.state,
                                        !.to = W.stateManager.state]
  /\ delivered = [l \in Listeners |-> <<>>]
  /\ expected = [l \in Listeners |-> 0]
  /\ script = <<>>
  /\ IdleClient

\* the bookkeeping of one setState(to, details) call made in the current state
RecordSetState(W, to, details) ==
  /\ lastCall' = [op |-> "setState", n |-> lastCall.n + 1, m |-> lastCall.m,
                  from |-> stateManager.state, to |-> to,
                  details |-> details, threw |-> W.threw,
                  error |-> IF W.threw THEN W.thrown ELSE "",
                  before |-> stateManager, beforeDelivered |-> delivered]
  /\ expected' = [l \in Listeners |->
                    IF ~W.threw /\ l \in Range(stateManager.listeners)
                      THEN expected[l] + 1 ELSE expected[l]]
  /\ occurred' = IF W.threw THEN occurred
                 ELSE Append(occurred, StatusOf(stateManager, to, details, now))

SmSetState(to, details) ==
  /\ lastCall.n < MaxCalls
  /\ LET W == setState(World, to, details)
     IN Install(W) /\ RecordSetState(W, to, details)
  /\ now' = now + 1
  /\ UNCHANGED script

SmOnStateChange(l) ==
  /\ l \notin Range(stateManager.listeners)
  /\ Install(onStateChange(World, l))
  /\ lastCall.m < MaxOtherCalls
  /\ lastCall' = [lastCall EXCEPT !.op = "onStateChange", !.m = @ + 1]
  /\ UNCHANGED <<now, expected, occurred, script>>

SmDispose(l) ==
  /\ l \in Range(stateManager.listeners)
  /\ Install(dispose(World, l))
  /\ lastCall.m < MaxOtherCalls
  /\ lastCall' = [lastCall EXCEPT !.op = "dispose", !.m = @ + 1]
  /\ UNCHANGED <<now, expected, occurred, script>>

SmSetServerProcessRunning(running) ==
  /\ stateManager.serverProcessRunning # running
  /\ Install(setServerProcessRunning(World, running))
  /\ lastCall.m < MaxOtherCalls
  /\ lastCall' = [lastCall EXCEPT !.op = "setServerProcessRunning", !.m = @ + 1]
  /\ UNCHANGED <<now, expected, occurred, script>>

NextStateManager ==
  \/ \E to \in ConnectionState, d \in DetailChoices : SmSetState(to, d)
  \/ \E l \in Listeners : SmOnStateChange(l)
  \/ \E l \in Listeners : SmDispose(l)
  \/ \E b \in BOOLEAN : SmSetServerProcessRunning(b)

SpecStateManager == InitStateManager /\ [][NextStateManager]_vars

----------------------------------------------------------------------------
(* The history under long runs: setState driven by a script of targets *)

PatternLen == 3

ScriptLen == maxHistorySize + ScriptExtra

Scripts ==
  {[i \in 1..ScriptLen |-> p[((i - 1) % PatternLen) + 1]] :
     p \in [1..PatternLen -> ConnectionState]}

InitHistory ==
  /\ stateManager = NewStateManager(0)
  /\ delivered = [l \in Listeners |-> <<>>]
  /\ now = 0
  /\ lastCall = NewCall
  /\ expected = [l \in Listeners |-> 0]
  /\ occurred = NewStateManager(0).statusHistory
  /\ script \in Scripts
  /\ IdleClient

HistSetState ==
  /\ script # <<>>
  /\ LET W == setState(World, Head(script), NoDetails)
     IN Install(W) /\ RecordSetState(W, Head(script), NoDetails)
  /\ script' = Tail(script)
  /\ now' = now + 1

NextHistory == HistSetState

SpecHistory == InitHistory /\ [][NextHistory]_vars

----------------------------------------------------------------------------
(* The client: lifecycle calls, requests of the subclass, timers, process   *)
(* output and process events, each run to completion on the event loop      *)

\* the methods the subclass sends: the handshake method and an ordinary one
Methods == {"initialize", "tools/call"}

SpawnOutcomes == {"running", "throws"}

\* the (code, signal) pairs of an exit event; "" stands for null
ExitEvents == {<<"1", "">>, <<"", "SIGTERM">>}

\* start() on a fresh client, the server's answer to the handshake and the
\* ready hook's success: the client with an established connection
Established(W) ==
  Drain(StartReady(Drain(handleMessage(Drain(start(W, "running", FALSE)),
                                       1, FALSE)), TRUE))

\* the setTimeout callback of request r starts to run
TimerCallback(W, r) ==
  handleTimeout([W EXCEPT !.timers = @ \ {r}, !.fired = @ \cup {r}], r)

\* an established client whose subclass has sent a handshake that timed out:
\* the re-synchronization has re-issued it and awaits the answer
Resyncing(W) ==
  LET W1 == Drain(sendRequest(Established(W), "initialize", Caller))
  IN Drain(TimerCallback(W1, W1.lastSent))

\* the client as constructed, or as constructed and then connected, with
\* re-synchronization disabled (maxRetries 0) or allowed MaxRetries attempts
Init ==
  /\ now = 0
  /\ lastCall = NewCall
  /\ expected = [l \in Listeners |-> 0]
  /\ occurred = NewStateManager(0).statusHistory
  /\ script = <<>>
  /\ \E m \in {0, MaxRetries}, connected \in BOOLEAN :
       LET W0 == NewClient([DEFAULT_RESYNC_CONFIG EXCEPT !.maxRetries = m])
           W == IF connected THEN Established(W0) ELSE W0
       IN /\ stateManager = W.stateManager
          /\ delivered = W.delivered
          /\ ClientIs(W)

Step(W) ==
  /\ audit.steps < MaxSteps
  /\ Install(Drain([W EXCEPT !.steps = @ + 1]))
  /\ UNCHANGED <<now, lastCall, expected, occurred, script>>

\* start(), called when no start() or reconnect() is in flight
Start(spawn) ==
  /\ startCall.pc = "idle"
  /\ Step(start(World, spawn, FALSE))

\* reconnect(), called when no start() or reconnect() is in flight
Reconnect(spawn) ==
  /\ startCall.pc = "idle"
  /\ Step(reconnect(World, spawn))

\* stop(), callable at any time
Stop ==
  /\ audit.steps < MaxSteps
  /\ Step(stop(World))

\* the promise returned by onServerReady() settles
ReadyHook(ok) ==
  /\ startCall.pc = "ready"
  /\ Step(StartReady(World, ok))

\* the subclass calls sendRequest or callTool
SendRequest(method) ==
  /\ requestId < MaxRequests
  /\ Step(sendRequest(World, method, Caller))

\* process p writes one line to its standard output: a response with the
\* given id and with or without an error, or (id = 0) a message without id
Response(p, id, isError) ==
  /\ procs[p].attached
  /\ procs[p].status = "running"
  /\ ~isStopping
  /\ Step(handleMessage(World, id, isError))

\* the timer of request r expires
TimerFires(r) ==
  /\ r \in timers
  /\ Step(TimerCallback(World, r))

\* the sleep(delay) timer of the attemptReSync call of request r expires
SleepFires(r) ==
  /\ frames[r].pc = "sleep"
  /\ Step(ReSyncWake(World, r))

\* process p exits, by itself or because stop() killed it: its exit event
ProcessExit(p, ev) ==
  /\ procs[p].status \in {"running", "killed"}
  /\ Step(exitEvent(World, p, ev[1], ev[2]))

\* process p emits an error event
ProcessError(p) ==
  /\ procs[p].status \in {"running", "killed"}
  /\ ~procs[p].errored
  /\ Step(errorEvent(World, p, "spawn error"))

Next ==
  \/ \E spawn \in SpawnOutcomes : Start(spawn)
  \/ \E spawn \in SpawnOutcomes : Reconnect(spawn)
  \/ Stop
  \/ \E ok \in BOOLEAN : ReadyHook(ok)
  \/ \E m \in Methods : SendRequest(m)
  \/ \E p \in Processes, id \in 0..MaxRequests, e \in BOOLEAN : Response(p, id, e)
  \/ \E r \in Requests : TimerFires(r)
  \/ \E r \in Requests : SleepFires(r)
  \/ \E p \in Processes, ev \in ExitEvents : ProcessExit(p, ev)
  \/ \E p \in Processes : ProcessError(p)

Spec == Init /\ [][Next]_vars

\* the same client from the moment a re-synchronization is under way
InitReSync ==
  /\ now = 0
  /\ lastCall = NewCall
  /\ expected = [l \in Listeners |-> 0]
  /\ occurred = NewStateManager(0).statusHistory
  /\ script = <<>>
  /\ \E m \in {1, MaxRetries} :
       LET W == Resyncing(NewClient([DEFAULT_RESYNC_CONFIG EXCEPT !.maxRetries = m]))
       IN /\ stateManager = W.stateManager
          /\ delivered = W.delivered
          /\ ClientIs(W)

SpecReSync == InitReSync /\ [][Next]_vars

\* the re-sync configurations that a subclass passes to the constructor:
\* the defaults with MaxRetries attempts, and configurations with a negative
\* maxRetries, with a retryDelayMs of 0 and with a backoffMultiplier of 1/2
SuppliedReSyncConfigs ==
  {[DEFAULT_RESYNC_CONFIG EXCEPT !.maxRetries = MaxRetries],
   [DEFAULT_RESYNC_CONFIG EXCEPT !.maxRetries = -1],
   [maxRetries |-> MaxRetries, retryDelayMs |-> 0,
    backoffNum |-> 1, backoffDen |-> 2]}

\* the connected client, constructed with any of these configurations
InitSupplied ==
  /\ now = 0
  /\ lastCall = NewCall
  /\ expected = [l \in Listeners |-> 0]
  /\ occurred = NewStateManager(0).statusHistory
  /\ script = <<>>
  /\ \E config \in SuppliedReSyncConfigs :
       LET W == Established(NewClient(config))
       IN /\ stateManager = W.stateManager
          /\ delivered = W.delivered
          /\ ClientIs(W)

SpecSupplied == InitSupplied /\ [][Next]_vars

----------------------------------------------------------------------------
(* The timeout manager of a client: updates and queries in any order *)

\* the values a caller puts into a field of a partial configuration: every
\* case validateConfig distinguishes, and a field set to undefined
TimeoutValues ==
  {Undefined, NotANumber, Num(MIN_TIMEOUT_MS - 1), Num(MIN_TIMEOUT_MS),
   Num(MAX_TIMEOUT_MS + 1), Half(MIN_TIMEOUT_MS)}

\* the partial configurations: any subset of the fields, any of the values
PartialConfigs ==
  UNION {[S -> TimeoutValues] : S \in SUBSET Range(TimeoutFields)}

\* the methods whose timeout is asked for
TimeoutMethods ==
  {"initialize", "tools/list", "tools/call", "Initialize", "tools/list/all"}

\* a client whose constructor was given the timeout configuration config and
\* did not throw
InitTimeout ==
  /\ stateManager = NewStateManager(0)
  /\ delivered = [l \in Listeners |-> <<>>]
  /\ now = 0
  /\ lastCall = NewCall
  /\ expected = [l \in Listeners |-> 0]
  /\ occurred = NewStateManager(0).statusHistory
  /\ script = <<>>
  /\ \E config \in PartialConfigs :
       LET W == NewTimeoutManager(NewClient(DEFAULT_RESYNC_CONFIG), config)
       IN /\ ~W.threw
          /\ ClientIs([W EXCEPT !.timeoutCall = NoTimeoutCall(config)])

\* timeoutManager.updateConfig(config)
TmUpdateConfig(config) ==
  /\ LET W == updateConfig(World, config)
     IN Install([W EXCEPT !.threw = FALSE, !.timeoutCall =
                   [op |-> "update", present |-> DOMAIN config,
                    threw |-> W.threw,
                    method |-> "", result |-> Undefined, other |-> Undefined,
                    built |-> NoConfig, updated |-> TRUE]])
  /\ UNCHANGED <<now, lastCall, expected, occurred, script>>

\* timeoutManager.getTimeoutForRequest(method), and the same call on a
\* second manager built from the configuration this one was built from
TmGetTimeout(method) ==
  /\ LET other == NewTimeoutManager(World, timeoutCall.built)
     IN Install([World EXCEPT !.timeoutCall =
                   [op |-> "get", present |-> {}, threw |-> FALSE,
                    method |-> method,
                    result |-> getTimeoutForRequest(timeoutConfig, method),
                    other |-> getTimeoutForRequest(other.timeoutConfig, method),
                    built |-> timeoutCall.built,
                    updated |-> timeoutCall.updated]])
  /\ UNCHANGED <<now, lastCall, expected, occurred, script>>

NextTimeout ==
  \/ \E config \in PartialConfigs : TmUpdateConfig(config)
  \/ \E method \in TimeoutMethods : TmGetTimeout(method)

SpecTimeout == InitTimeout /\ [][NextTimeout]_vars

----------------------------------------------------------------------------
(* The standard output of the server process, cut into chunks in every way *)

MaxLines == 2

\* the lines a server writes: a response to request 2, a notification whose
\* text holds a two-byte character, a line that is not JSON and a blank line
OutputLines ==
  {<<"{", "2", "}", "LF">>,
   <<"{", "C3", "A9", "}", "LF">>,
   <<"}", "LF">>,
   <<"SP", "LF">>}

\* the beginning of a line that the server has not finished writing
PartialLines == {<<>>, <<"{", "2">>}

RECURSIVE Flatten(_)
Flatten(ss) == IF ss = <<>> THEN <<>> ELSE Head(ss) \o Flatten(Tail(ss))

OutputStreams ==
  {Flatten(ls) \o tail :
     ls \in UNION {[1..n -> OutputLines] : n \in 0..MaxLines},
     tail \in PartialLines}

\* a connected client with request 2 pending, whose process is about to
\* write one of the streams
InitStdout ==
  /\ now = 0
  /\ lastCall = NewCall
  /\ expected = [l \in Listeners |-> 0]
  /\ occurred = NewStateManager(0).statusHistory
  /\ script = <<>>
  /\ \E stream \in OutputStreams :
       LET W0 == Established(NewClient(DEFAULT_RESYNC_CONFIG))
           W == [Drain(sendRequest(W0, "tools/call", Caller))
                   EXCEPT !.stdout = OutputOf(stream)]
       IN /\ stateManager = W.stateManager
          /\ delivered = W.delivered
          /\ ClientIs(W)

\* the stream emits its next k bytes as one chunk
StdoutData(k) ==
  /\ stdout.pos + k <= Len(stdout.stream)
  /\ Install(Drain(stdoutData(
       [World EXCEPT !.stdout.pos = @ + k],
       SubSeq(stdout.stream, stdout.pos + 1, stdout.pos + k))))
  /\ UNCHANGED <<now, lastCall, expected, occurred, script>>

NextStdout == \E k \in 1..(5 * MaxLines + 2) : StdoutData(k)

SpecStdout == InitStdout /\ [][NextStdout]_vars

----------------------------------------------------------------------------
(* Claims about the state manager *)

\* the transition table as the specification states it
StatedTable ==
  [s \in ConnectionState |->
     CASE s = "disconnected" -> {"connecting", "error"}
       [] s = "connecting" -> {"connected", "error", "disconnected"}
       [] s = "connected" -> {"timeout_retrying", "disconnected", "error"}
       [] s = "timeout_retrying" -> {"connected", "error", "disconnected"}
       [] s = "error" -> {"connecting", "disconnected"}]

StatedValid(from, to) == from = to \/ to \in StatedTable[from]

Registered == Range(stateManager.listeners)

LastOf(s) == s[Len(s)]

\* C1: setState(to) in state from succeeds iff from = to or to is in the
\* table row of from; otherwise it raises the invalid-transition error and
\* the current state is unchanged.
C1_TransitionTable ==
  lastCall.op = "setState" =>
    /\ ~lastCall.threw <=> StatedValid(lastCall.from, lastCall.to)
    /\ ~lastCall.threw => stateManager.state = lastCall.to
    /\ lastCall.threw =>
         /\ stateManager.state = lastCall.from
         /\ lastCall.error = "Invalid state transition from " \o lastCall.from
                               \o " to " \o lastCall.to

C1_Witness ==
  /\ lastCall.op = "setState"
  /\ lastCall.threw
  /\ lastCall.from = TIMEOUT_RETRYING
  /\ lastCall.to = CONNECTING

\* C2: a rejected setState leaves the state, the message, the history, the
\* serverProcessRunning flag and the listeners' inboxes as they were; every
\* listener has received one notification per accepted call made while it
\* was registered and none for a rejected call.
C2_RejectedChangesNothing ==
  /\ (lastCall.op = "setState" /\ ~StatedValid(lastCall.from, lastCall.to)) =>
       /\ stateManager = lastCall.before
       /\ delivered = lastCall.beforeDelivered
  /\ \A l \in Listeners : Len(delivered[l]) = expected[l]

C2_Witness ==
  /\ lastCall.op = "setState"
  /\ lastCall.threw
  /\ \E l \in Registered : expected[l] >= 1

\* C3: one accepted setState call delivers exactly one notification to each
\* registered listener, all with equal state, message, serverProcessRunning
\* and timestamp.
C3_OneEqualNotificationEach ==
  (lastCall.op = "setState" /\ ~lastCall.threw) =>
    /\ \A l \in Registered :
         Len(delivered[l]) = Len(lastCall.beforeDelivered[l]) + 1
    /\ \A l \in Listeners \ Registered :
         delivered[l] = lastCall.beforeDelivered[l]
    /\ \A l1, l2 \in Registered :
         LET a == LastOf(delivered[l1])
             b == LastOf(delivered[l2])
         IN /\ a.state = b.state
            /\ a.message = b.message
            /\ a.serverProcessRunning = b.serverProcessRunning
            /\ a.timestamp = b.timestamp

C3_Witness ==
  /\ lastCall.op = "setState"
  /\ ~lastCall.threw
  /\ Registered = Listeners
  /\ lastCall.from # lastCall.to

\* the listeners registered after a listener whose callback raises
AfterThrowing ==
  {stateManager.listeners[j] : j \in
     {k \in DOMAIN stateManager.listeners :
        \E i \in 1..(k - 1) : stateManager.listeners[i] \in Throwing}}

\* C4: when a listener raises during notification, setState still succeeds
\* with the new state and the history entry in place, and every listener
\* registered after the raising one receives the notification.
C4_ListenerFailureIsolated ==
  (/\ lastCall.op = "setState"
   /\ StatedValid(lastCall.from, lastCall.to)
   /\ Registered \cap Throwing # {}) =>
    /\ ~lastCall.threw
    /\ stateManager.state = lastCall.to
    /\ LastOf(stateManager.statusHistory).state = lastCall.to
    /\ LastOf(stateManager.statusHistory) = LastOf(occurred)
    /\ \A l \in AfterThrowing :
         /\ Len(delivered[l]) = Len(lastCall.beforeDelivered[l]) + 1
         /\ LastOf(delivered[l]) = LastOf(stateManager.statusHistory)

C4_Witness ==
  /\ lastCall.op = "setState"
  /\ ~lastCall.threw
  /\ lastCall.from # lastCall.to
  /\ AfterThrowing # {}

\* the last n elements of a sequence
LastN(s, n) == IF Len(s) <= n THEN s ELSE SubSeq(s, Len(s) - n + 1, Len(s))

\* C5: the history starts with exactly one Disconnected entry, never holds
\* more than 50 entries, and is always the most recent (at most 50) statuses
\* in order of occurrence.
C5_HistoryBounded ==
  /\ (lastCall.op = "new" /\ now = 0) =>
       /\ Len(stateManager.statusHistory) = 1
       /\ stateManager.statusHistory[1].state = "disconnected"
  /\ Len(stateManager.statusHistory) <= 50
  /\ stateManager.statusHistory = LastN(occurred, 50)

C5_Witness ==
  /\ Len(occurred) > 50
  /\ Len(stateManager.statusHistory) = 50
  /\ stateManager.statusHistory[1] = occurred[Len(occurred) - 49]
  /\ stateManager.statusHistory[1] # occurred[1]

----------------------------------------------------------------------------
(* Claims about the request registry *)

\* C6: request ids are allocated 1, 2, 3, ... in the order of the send calls,
\* strictly increasing and never reused, also after a request has completed,
\* timed out or failed to send, and across stop() and reconnect()
C6_IdsIncreaseNeverReused ==
  /\ Len(audit.issued) = requestId
  /\ \A i \in 1..Len(audit.issued) : audit.issued[i] = i

\* an id allocated after an earlier request was flushed by a stop(), another
\* failed to send and another was answered
C6_Witness ==
  /\ audit.stops >= 1
  /\ \E a, b, c, d \in Requests :
       /\ a < d /\ b < d /\ c < d
       /\ future[a].by = "response"
       /\ future[b].by = "flush"
       /\ future[c].by = "send"
       /\ future[d].status = "pending"

\* the calls that the response, timeout and flush handlers made to settle
\* the future of request id
HandlerCalls(id) ==
  {i \in 1..Len(audit.settleCalls[id]) :
     audit.settleCalls[id][i] \in {"response", "timeout", "flush"}}

\* C7: for every request id, under every interleaving of its response, its
\* timeout and a bulk flush, the registry entry is removed at most once (by
\* the handler that runs first) and at most one handler settles the future;
\* a handler that settles has removed the entry
C7_RemovedAndSettledOnce ==
  \A id \in Requests :
    /\ audit.removed[id] <= 1
    /\ Cardinality(HandlerCalls(id)) <= 1
    /\ Cardinality(HandlerCalls(id)) = 1 => audit.removed[id] = 1
    /\ id \in DOMAIN pendingRequests => audit.removed[id] = 0

\* the timer of a handshake fired and removed its entry; while its timeout
\* handler was still awaiting the re-synchronization a bulk flush ran (it
\* flushed the re-issued handshake) and the timeout then settled the future
C7_Witness ==
  \E r \in Requests :
    /\ r \in audit.fired
    /\ r \notin audit.flushed
    /\ frames[r].child \in audit.flushed
    /\ future[r].by = "timeout"
    /\ audit.removed[r] = 1

\* C8: a bulk flush (clearPendingRequests, run by stop() and on process exit)
\* rejects every future that is still pending with the reason "Connection
\* closed", cancels the timer of every registered request and leaves none of
\* them in the registry (which then holds only requests issued after the
\* flush); the timer of a flushed request never fires afterwards
C8_BulkFlush ==
  [][/\ audit.flushes' # audit.flushes =>
          /\ \A id \in DOMAIN pendingRequests :
               /\ future'[id].status = "rejected"
               /\ future[id].status = "pending" =>
                    /\ future'[id].reason = "Connection closed"
                    /\ future'[id].by = "flush"
               /\ id \notin timers'
               /\ id \notin DOMAIN pendingRequests'
               /\ id \in audit.flushed'
          /\ DOMAIN pendingRequests' \subseteq (requestId + 1)..requestId'
     /\ (audit.fired' \ audit.fired) \cap audit.flushed = {}
     /\ audit.flushed' \cap timers' = {}]_vars

\* one flush has rejected two pending requests and left the registry empty
C8_Witness ==
  /\ audit.flushes = 1
  /\ DOMAIN pendingRequests = {}
  /\ timers = {}
  /\ \E a, b \in audit.flushed :
       /\ a < b
       /\ future[a].by = "flush" /\ future[a].reason = "Connection closed"
       /\ future[b].by = "flush" /\ future[b].reason = "Connection closed"

\* C9: a future that sendRequest returned is settled only by a matching
\* response, by the request's own timeout or by a bulk flush, and by no other
\* path, a failure to write the request included
C9_SettledOnlyByThreeEvents ==
  \A id \in Requests :
    future[id].status \in {"resolved", "rejected"} =>
      future[id].by \in {"response", "timeout", "flush"}

----------------------------------------------------------------------------
(* Claims about the handshake *)

\* the timer of the handshake that start() awaits expires in this step while
\* the server process is alive
StartHandshakeTimesOut ==
  /\ startCall.pc = "init"
  /\ startCall.req \in timers
  /\ startCall.req \notin audit.fired
  /\ startCall.req \in audit.fired'
  /\ isServerProcessAlive(World)

\* C10: when the handshake sent by start() times out while the server
\* process is alive, the re-synchronization takes over: the state enters
\* TimeoutRetrying and the handshake is re-issued (the first re-issue is not
\* delayed), provided maxRetries allows a retry
C10_ResyncTakesOver ==
  [][(StartHandshakeTimesOut /\ reSyncConfig.maxRetries >= 1) =>
       /\ stateManager'.state = TIMEOUT_RETRYING
       /\ requestId' = requestId + 1
       /\ frames'[startCall.req].child = requestId'
       /\ future'[requestId'].method = "initialize"]_vars

\* C11: start() fails because of a handshake timeout only after the
\* re-synchronization of that handshake has run out of attempts; when a
\* re-issued handshake succeeds the state is Connected and the rejection of
\* the timed-out request does not move it to Error or fail start()
C11_StartFailsOnlyAfterExhaustion ==
  [][startCall.pc = "init" =>
       LET r == startCall.req
       IN /\ (startCall'.result = "failed"
               /\ startCall'.error = TimeoutMessage("initialize")) =>
                 /\ frames'[r].pc = "done"
                 /\ ~frames'[r].success
          /\ (frames[r].pc = "wait" /\ frames'[r].pc = "done"
               /\ frames'[r].success) =>
                 /\ stateManager'.state = CONNECTED
                 /\ startCall'.result # "failed"]_vars

\* C12: when start() completes successfully the state is Connected and the
\* ready hook has been invoked once, after the handshake was answered; while
\* start() is in flight the state is never Connected before the ready hook
\* has completed; a failure of the ready hook makes start() fail
C12_ReadyHookBeforeConnected ==
  [][/\ (startCall.pc # "idle" /\ startCall'.pc = "idle"
         /\ startCall'.result = "ok") =>
           /\ stateManager'.state = CONNECTED
           /\ startCall.pc = "ready"
           /\ future'[startCall.req].status = "resolved"
     /\ audit.readyCalls' # audit.readyCalls =>
           /\ audit.readyCalls' = audit.readyCalls + 1
           /\ startCall'.pc = "ready"
           /\ future'[startCall'.req].status = "resolved"
     /\ startCall'.pc \in {"spawning", "init", "ready"} =>
           stateManager'.state # CONNECTED
     /\ startCall'.error = "Server ready failed" =>
           startCall'.result = "failed"]_vars

\* a start() call fails in this step
StartFails ==
  /\ startCall.pc # "idle" \/ audit.starts' # audit.starts
  /\ startCall'.pc = "idle"
  /\ startCall'.result = "failed"

\* C13: whenever start() fails, at any step and from any state in which it
\* is called, the failure is recorded as lastError, the state is Error when
\* start() returns, and the failure is propagated to the caller
C13_StartFailureRecorded ==
  [][StartFails =>
       /\ startCall'.error # ""
       /\ lastError' = {startCall'.error}
       /\ stateManager'.state = ERROR]_vars

\* C14: stop() is total and idempotent: called in any state it completes
\* without error and leaves the state Disconnected, the registry empty with
\* every registered future rejected and every timer cancelled,
\* serverProcessRunning false and no process handle; a second stop() leaves
\* the state, the registry, the futures and the flag as the first left them
C14_StopTotalIdempotent ==
  LET W1 == stop(World)
      W2 == stop(W1)
  IN /\ ~W1.threw
     /\ W1.stateManager.state = DISCONNECTED
     /\ DOMAIN W1.pendingRequests = {}
     /\ W1.timers = {}
     /\ \A id \in DOMAIN pendingRequests : W1.future[id].status = "rejected"
     /\ ~W1.stateManager.serverProcessRunning
     /\ W1.serverProcess = 0
     /\ ~W2.threw
     /\ W2.stateManager.state = W1.stateManager.state
     /\ W2.pendingRequests = W1.pendingRequests
     /\ W2.timers = W1.timers
     /\ W2.future = W1.future
     /\ W2.stateManager.serverProcessRunning = W1.stateManager.serverProcessRunning
     /\ W2.serverProcess = W1.serverProcess

\* stop() has run twice since the client was started and has flushed
\* pending requests
C14_Witness ==
  /\ audit.stops = 2
  /\ audit.starts = 1
  /\ audit.flushes = 2
  /\ Cardinality(audit.flushed) >= 2
  /\ stateManager.state = DISCONNECTED
  /\ serverProcess = 0
  /\ DOMAIN pendingRequests = {}

\* C15: stop() detaches the listeners of the process before killing it, so
\* an exit or error event of a stopped process, arriving after stop() has
\* returned, runs no handler: the registry is not flushed again, lastError
\* is not overwritten and the connection state does not change
C15_StoppedProcessEventsIgnored ==
  [][\A p \in Processes :
       (/\ p \in audit.stopped
        /\ \/ procs'[p].status # procs[p].status
           \/ procs'[p].errored # procs[p].errored) =>
         /\ audit.flushes' = audit.flushes
         /\ lastError' = lastError
         /\ stateManager' = stateManager
         /\ pendingRequests' = pendingRequests
         /\ timers' = timers
         /\ future' = future]_vars

\* a process that stop() killed has since emitted its exit event and an
\* error event while a request of the next connection is pending
C15_Witness ==
  \E p \in audit.stopped :
    /\ procs[p].status = "exited"
    /\ procs[p].errored
    /\ DOMAIN pendingRequests # {}
    /\ lastError = {}

\* a reconnect() call returns in this step
ReconnectReturns ==
  /\ startCall.pc # "idle" \/ audit.starts' # audit.starts
  /\ startCall'.pc = "idle"
  /\ startCall'.viaReconnect

\* C16: reconnect() performs stop(), resets the attempt counter of the
\* re-synchronization to 0 and then calls start(); it never throws and
\* returns true exactly when start() succeeded, with the state Connected,
\* and false when start() failed
C16_ReconnectReturnsOutcome ==
  /\ [](startCall.pc = "idle" =>
          \A spawn \in SpawnOutcomes :
            LET W0 == stop(World)
                W == reconnect(World, spawn)
            IN /\ ~W0.threw
               /\ W.stops = audit.stops + 1
               /\ W.flushes = audit.flushes + 1
               /\ W.starts = audit.starts + 1
               /\ W.currentAttempt = 0
               /\ W.startCall.viaReconnect
               /\ W.startCall.pc = "idle" =>
                    W.startCall.reconnected = "false")
  /\ [][ReconnectReturns =>
          /\ startCall'.reconnected \in {"true", "false"}
          /\ startCall'.reconnected = "true" =>
               /\ startCall'.result = "ok"
               /\ stateManager'.state = CONNECTED
          /\ startCall'.reconnected = "false" =>
               startCall'.result = "failed"]_vars

\* reconnect() on a client whose re-synchronization had used attempts has
\* returned true
C16_Witness ==
  /\ startCall.pc = "idle"
  /\ startCall.viaReconnect
  /\ startCall.reconnected = "true"
  /\ stateManager.state = CONNECTED
  /\ audit.fired # {}

\* the exit codes and signals of an exit event; "" stands for null
ExitCodes == {"", "0", "1"}
ExitSignals == {"", "SIGTERM"}

\* C17: handleServerExit(code, signal), from any state, records lastError
\* (a signal given: killed by signal, also when a code is given too; else a
\* code given: exited with code; else exited unexpectedly), rejects and
\* removes every pending request, sets serverProcessRunning to false and
\* leaves the state Disconnected
C17_ServerExitHandled ==
  \A code \in ExitCodes, signal \in ExitSignals :
    LET W == handleServerExit(World, code, signal)
    IN /\ ~W.threw
       /\ signal # "" =>
            W.lastError = {"Server process killed by signal: " \o signal}
       /\ (signal = "" /\ code # "") =>
            W.lastError = {"Server process exited with code: " \o code}
       /\ (signal = "" /\ code = "") =>
            W.lastError = {"Server process exited unexpectedly"}
       /\ DOMAIN W.pendingRequests = {}
       /\ W.timers = {}
       /\ \A id \in DOMAIN pendingRequests :
            /\ W.future[id].status = "rejected"
            /\ future[id].status = "pending" =>
                 W.future[id].reason = "Connection closed"
       /\ ~W.stateManager.serverProcessRunning
       /\ W.stateManager.state = DISCONNECTED
       /\ W.stateManager.currentMessage = The(W.lastError)

\* the exit handler has run on a signal while two requests were pending
C17_Witness ==
  /\ lastError = {"Server process killed by signal: SIGTERM"}
  /\ stateManager.state = DISCONNECTED
  /\ ~stateManager.serverProcessRunning
  /\ audit.stops = 0
  /\ \E a, b \in audit.flushed :
       a # b /\ future[a].by = "flush" /\ future[b].by = "flush"

\* the error listener of an attached process runs in this step
ErrorHandlerRuns ==
  \E p \in Processes :
    /\ procs[p].attached
    /\ ~procs[p].errored
    /\ procs'[p].errored

\* C18: an error event of the server process records lastError, flushes all
\* pending requests (each pending future rejected and removed, its timer
\* cancelled) and moves the connection state to Error
C18_ServerErrorFlushes ==
  [][ErrorHandlerRuns =>
       /\ lastError' = {"spawn error"}
       /\ stateManager'.state = ERROR
       /\ \A id \in DOMAIN pendingRequests :
            /\ future'[id].status = "rejected"
            /\ id \notin DOMAIN pendingRequests'
            /\ id \notin timers']_vars

\* the timer of request r expires in this step
TimerExpires(r) ==
  /\ r \in timers
  /\ r \notin audit.fired
  /\ r \in audit.fired'

\* C19: when a request whose method is not 'initialize' times out, only that
\* request's future is rejected and its entry removed; the connection state,
\* the attempt counter, every other pending request with its timer and every
\* other future are unchanged, and the re-synchronization is not invoked
C19_OrdinaryTimeoutIsolated ==
  [][\A r \in Requests :
       (TimerExpires(r) /\ future[r].method # "initialize") =>
         /\ future'[r].status = "rejected"
         /\ future[r].status = "pending" =>
              /\ future'[r].by = "timeout"
              /\ future'[r].reason = TimeoutMessage(future[r].method)
         /\ pendingRequests' = Without(pendingRequests, r)
         /\ timers' = timers \ {r}
         /\ \A id \in Requests \ {r} : future'[id] = future[id]
         /\ stateManager' = stateManager
         /\ currentAttempt' = currentAttempt
         /\ lastError' = lastError
         /\ frames' = frames
         /\ requestId' = requestId
         /\ audit.reissued' = audit.reissued]_vars

\* an ordinary request has timed out on a connected client while another
\* request stays pending with its timer
C19_Witness ==
  \E r \in audit.fired, id \in timers :
    /\ future[r].method = "tools/call"
    /\ future[r].by = "timeout"
    /\ id \in DOMAIN pendingRequests
    /\ future[id].status = "pending"
    /\ stateManager.state = CONNECTED

\* C20: when an 'initialize' request times out and the server process is not
\* alive, the re-synchronization is not invoked for it, no handshake is
\* re-issued and the connection state becomes Error
C20_DeadProcessNoResync ==
  [][\A r \in Requests :
       (/\ TimerExpires(r)
        /\ future[r].method = "initialize"
        /\ ~isServerProcessAlive(World)) =>
         /\ frames'[r] = NoFrame
         /\ requestId' = requestId
         /\ audit.reissued' = audit.reissued
         /\ stateManager'.state = ERROR
         /\ r \notin DOMAIN pendingRequests'
         /\ future'[r].status = "rejected"]_vars

\* a handshake that was written to a process has timed out after that
\* process exited: the state is Error and no re-synchronization was started
C20_Witness ==
  \E r \in audit.fired :
    /\ future[r].method = "initialize"
    /\ future[r].by = "timeout"
    /\ audit.sentTo[r] # 0
    /\ frames[r] = NoFrame
    /\ stateManager.state = ERROR
    /\ stateManager.currentMessage = "Server process exited during initialization"

----------------------------------------------------------------------------
(* Claims about the re-synchronization loop *)

\* the handshake invocations of the attemptReSync call made for request r:
\* the requests that sendInitialize() issued for it
Handshakes(r) ==
  {id \in Requests :
     future[id].status # "unissued" /\ awaiting[id] = ReSyncWaiter(r)}

\* the messages of the statuses that attemptReSync sets
ReSyncMessages ==
  {"Re-synchronization successful"}
    \cup {"Re-synchronization attempt " \o ToString(j) \o "/" \o ToString(m) :
            j \in 0..MaxRetries, m \in 0..MaxRetries}
    \cup {"Re-synchronization failed after " \o ToString(n) \o " attempts" :
            n \in 0..MaxRetries}

\* the statuses set since the attemptReSync call of request r was entered
SetSince(r) ==
  SubSeq(stateManager.statusHistory, frames[r].mark + 1,
         Len(stateManager.statusHistory))

\* the attemptReSync call of request r was entered with the attempt counter
\* 0 on a state manager in Connected, no other attemptReSync call ran during
\* it and nothing else has changed the connection state since it was entered
LoneCall(r) ==
  /\ frames[r].pc # "none"
  /\ frames[r].startAttempt = 0
  /\ frames[r].alone
  /\ stateManager.statusHistory[frames[r].mark].state = CONNECTED
  /\ \A i \in DOMAIN SetSince(r) : SetSince(r)[i].message \in ReSyncMessages

\* the attemptReSync call of request r returns in this step
ReSyncReturns(r) ==
  /\ frames[r].pc # "done"
  /\ frames'[r].pc = "done"

C23_FailureEndsInError ==
  [][\A r \in Requests :
       (ReSyncReturns(r) /\ ~frames'[r].success) =>
         stateManager'.state = ERROR]_vars

\* retryDelayMs x backoffMultiplier^e for the configured values
BackoffDelay(e) ==
  (reSyncConfig.retryDelayMs * Pow(reSyncConfig.backoffNum, e))
    \div Pow(reSyncConfig.backoffDen, e)

\* the attemptReSync call of request r, entered with the attempt counter 0
\* and not overlapped by another call, is in its attempt number currentAttempt
LoneAttempt(r) ==
  /\ frames[r].alone
  /\ frames[r].startAttempt = 0

\* C24: in attemptReSync no wait precedes attempt 1 and the wait before
\* attempt N (N >= 2) is retryDelayMs x backoffMultiplier^(N-2) milliseconds
C24_WaitBeforeAttempt ==
  \A r \in Requests :
    LoneAttempt(r) =>
      /\ (frames[r].pc = "wait" /\ currentAttempt = 1) => frames[r].delay = 0
      /\ frames[r].pc = "sleep" =>
           /\ currentAttempt >= 2
           /\ frames[r].delay = BackoffDelay(currentAttempt - 2)

\* C25: the wait that precedes retry k (k >= 1), the k-th handshake that
\* attemptReSync issues, is retryDelayMs x backoffMultiplier^(k-1)
\* milliseconds, the value getNextRetryDelay() returns at attempt k
C25_WaitBeforeRetry ==
  \A r \in Requests :
    (LoneAttempt(r) /\ frames[r].pc = "wait" /\ currentAttempt >= 1) =>
      /\ getNextRetryDelay(World) = BackoffDelay(currentAttempt - 1)
      /\ frames[r].delay = getNextRetryDelay(World)

----------------------------------------------------------------------------
(* Claims about the timeout manager *)

\* the field whose value the stated mapping gives to a method, and the
\* stated value of a field when nothing was configured
StatedField(method) ==
  IF method = "initialize" THEN "initializationTimeoutMs"
  ELSE IF method = "tools/list" THEN "toolsListTimeoutMs"
  ELSE "standardRequestTimeoutMs"

StatedDefault(f) == IF f = "standardRequestTimeoutMs" THEN 30000 ELSE 60000

\* C26: getTimeoutForRequest(method) returns the configured initialization
\* timeout exactly for 'initialize', the tools-list timeout exactly for
\* 'tools/list' and the standard timeout for every other method, whatever
\* calls were made before; a second manager built from the same
\* configuration returns the same value, which is the value configured for
\* the field or, where none was configured, 60000, 60000 and 30000
C26_TimeoutForMethod ==
  timeoutCall.op = "get" =>
    LET f == StatedField(timeoutCall.method)
    IN /\ timeoutCall.result = timeoutConfig[f]
       /\ ~timeoutCall.updated =>
            /\ timeoutCall.other = timeoutCall.result
            /\ timeoutCall.result =
                 IF f \in DOMAIN timeoutCall.built THEN timeoutCall.built[f]
                 ELSE Num(StatedDefault(f))

\* the timeout of a method that resembles 'initialize' has been asked for on
\* a manager built without configuration: it is the standard timeout
C26_Witness ==
  /\ timeoutCall.op = "get"
  /\ timeoutCall.method = "Initialize"
  /\ ~timeoutCall.updated
  /\ timeoutCall.built = NoConfig
  /\ timeoutCall.result = Num(30000)
  /\ timeoutCall.other = Num(30000)

\* a value that the stated validation accepts: an integer in [1000, 300000]
InBounds(v) ==
  /\ v.type = "number"
  /\ ~v.half
  /\ v.n >= 1000
  /\ v.n <= 300000

\* the stated validation reports an error for the partial configuration
ReportsError(partial) ==
  \E f \in DOMAIN partial :
    partial[f].type # "undefined" /\ ~InBounds(partial[f])

\* the partial configurations of the updates, and those that also carry the
\* largest accepted value and the non-integer just above it
UpdateConfigs ==
  UNION {[S -> TimeoutValues \cup {Num(MAX_TIMEOUT_MS), Half(MAX_TIMEOUT_MS)}] :
           S \in SUBSET Range(TimeoutFields)}

\* C27: in every state of a timeout manager, updateConfig(partial) either
\* throws and leaves the three timeouts as they were, which it does exactly
\* when the validation of the partial reports an error, or replaces exactly
\* the fields present in the partial and leaves the others unchanged
C27_UpdateAllOrNothing ==
  \A partial \in UpdateConfigs :
    LET W == updateConfig(World, partial)
    IN IF ReportsError(partial)
         THEN /\ W.threw
              /\ W.timeoutConfig = timeoutConfig
         ELSE /\ ~W.threw
              /\ DOMAIN W.timeoutConfig = Range(TimeoutFields)
              /\ \A f \in Range(TimeoutFields) :
                   W.timeoutConfig[f] =
                     IF f \in DOMAIN partial THEN partial[f] ELSE timeoutConfig[f]

\* an update of two fields has been rejected on a manager whose
\* initialization timeout had been configured: that value is in place
C27_Witness ==
  /\ timeoutCall.op = "update"
  /\ timeoutCall.threw
  /\ timeoutCall.present =
       {"initializationTimeoutMs", "standardRequestTimeoutMs"}
  /\ timeoutConfig["initializationTimeoutMs"] = Num(MIN_TIMEOUT_MS)
  /\ timeoutConfig["standardRequestTimeoutMs"] = Num(30000)

\* C28: after construction and after any sequence of updateConfig calls,
\* accepted or rejected, each of the three timeouts of a timeout manager is
\* an integer in [1000, 300000]
C28_TimeoutsInBounds ==
  \A f \in Range(TimeoutFields) : InBounds(timeoutConfig[f])

----------------------------------------------------------------------------
(* Claims about the re-sync configuration *)

\* the stated constraints: maxRetries >= 0, retryDelayMs > 0 and
\* backoffMultiplier >= 1.0
StatedReSyncConfig(config) ==
  /\ config.maxRetries >= 0
  /\ config.retryDelayMs > 0
  /\ config.backoffNum >= config.backoffDen

\* C29: a re-sync configuration that violates the constraints is rejected
\* when it is supplied: no client holds one, and attemptReSync never runs
\* with one
C29_ReSyncConfigRejected ==
  (\E r \in Requests : frames[r].pc # "none") =>
    StatedReSyncConfig(reSyncConfig)

----------------------------------------------------------------------------
(* Claims about the request timers *)

\* C30: in every reachable state the request timers that are armed and not
\* cancelled are those of the request ids in the pending registry: every
\* entry has its live timer and no timer outlives its entry, whether the
\* entry left on a response, on its timeout or in a flush
C30_TimersMatchRegistry ==
  timers = DOMAIN pendingRequests

\* one request was answered, one has timed out and one has been rejected by
\* a flush, or one is still pending with its timer
C30_Witness ==
  \E a, b, c \in Requests :
    /\ future[a].by = "response"
    /\ future[b].by = "timeout"
    /\ \/ future[c].by = "flush"
       \/ future[c].status = "pending" /\ c \in timers
    /\ audit.removed[a] = 1
    /\ audit.removed[b] = 1

\* the messages that match no entry of the registry: without id (0), or with
\* an id never issued, already resolved, timed out or flushed
Unmatched == (0..MaxRequests) \ DOMAIN pendingRequests

\* C31: an inbound message that has no id, or whose id is not in the
\* registry, changes nothing: the registry, the timers (of requests and of
\* re-synchronization waits), the connection state and every future are as
\* before, and no resolve or reject is called
C31_UnmatchedMessageIgnored ==
  \A id \in Unmatched, isError \in BOOLEAN :
    LET W == Drain(handleMessage(World, id, isError))
    IN /\ ~W.threw
       /\ W.pendingRequests = pendingRequests
       /\ W.timers = timers
       /\ W.frames = frames
       /\ W.stateManager = stateManager
       /\ W.future = future
       /\ W.settleCalls = audit.settleCalls
       /\ W.removed = audit.removed

\* two steps have sent a request and resolved it by its response, and a third
\* step has changed nothing: a further message of the running process, which
\* matched no entry
C31_Witness ==
  /\ audit.steps = 3
  /\ audit.issued = <<1, 2>>
  /\ future[2].by = "response"
  /\ audit.settleCalls[2] = <<"response">>
  /\ audit.removed[2] = 1
  /\ DOMAIN pendingRequests = {}
  /\ 2 \in Unmatched
  /\ audit.starts = 1
  /\ audit.stops = 0
  /\ audit.fired = {}
  /\ stateManager.state = CONNECTED
  /\ \A p \in Processes : procs[p].status \in {"unborn", "running"} /\ ~procs[p].errored

\* C32: setState to the current state succeeds in every state, leaves the
\* state as it is, notifies every registered listener once and appends one
\* entry (for that state) to the history
C32_SameStateAccepted ==
  (lastCall.op = "setState" /\ lastCall.from = lastCall.to) =>
    /\ ~lastCall.threw
    /\ stateManager.state = lastCall.from
    /\ \A l \in Registered :
         /\ Len(delivered[l]) = Len(lastCall.beforeDelivered[l]) + 1
         /\ LastOf(delivered[l]).state = lastCall.to
    /\ \A l \in Listeners \ Registered :
         delivered[l] = lastCall.beforeDelivered[l]
    /\ Len(stateManager.statusHistory) = Len(lastCall.before.statusHistory) + 1
    /\ SubSeq(stateManager.statusHistory, 1, Len(lastCall.before.statusHistory))
         = lastCall.before.statusHistory
    /\ LastOf(stateManager.statusHistory).state = lastCall.to

\* setState(timeout_retrying) has been called in state timeout_retrying with
\* every listener registered
C32_Witness ==
  /\ lastCall.op = "setState"
  /\ lastCall.from = TIMEOUT_RETRYING
  /\ lastCall.to = TIMEOUT_RETRYING
  /\ Registered = Listeners
  /\ stateManager.state = TIMEOUT_RETRYING

\* the messages of the complete non-blank lines that parse
RECURSIVE ParsedLines(_)
ParsedLines(lines) ==
  IF lines = <<>> THEN <<>>
  ELSE LET message == JSONparse(Head(lines))
       IN (IF trim(Head(lines)) # <<>> /\ ~message.threw
             THEN <<[id |-> message.id, result |-> message.result]>>
             ELSE <<>>) \o ParsedLines(Tail(lines))

\* the whole stream decoded, split on newlines, its complete lines parsed
WholeStream(bytes) ==
  LET lines == split(toString(bytes))
  IN ParsedLines(SubSeq(lines, 1, Len(lines) - 1))

Emitted == SubSeq(stdout.stream, 1, stdout.pos)

\* C33: however the byte stream of the process is cut into chunks, the
\* messages dispatched to the response handler are those of the complete
\* non-blank lines of the whole stream that parse, in order
C33_ChunkingInvisible ==
  stdout.dispatched = WholeStream(Emitted)

\* the same for streams of single-byte characters only
SingleByteChunkingInvisible ==
  (\A i \in DOMAIN stdout.stream : stdout.stream[i] \notin {"C3", "A9"}) =>
    stdout.dispatched = WholeStream(Emitted)

\* C34: with maxRetries fixed, the attempt counter of the re-synchronization
\* stays within 0..maxRetries in every reachable state, whatever the
\* interleaving of attemptReSync calls (overlapping ones included) and
\* reset()
C34_AttemptCounterBounded ==
  /\ currentAttempt >= 0
  /\ currentAttempt <= reSyncConfig.maxRetries

\* two attemptReSync calls overlap and the counter has reached maxRetries
C34_Witness ==
  /\ reSyncConfig.maxRetries = MaxRetries
  /\ currentAttempt = MaxRetries
  /\ \E q, r \in Requests :
       /\ q # r
       /\ frames[q].pc = "wait"
       /\ frames[r].pc = "sleep"
       /\ ~frames[q].alone
       /\ ~frames[r].alone

\* reconnect() is called in this step
ReconnectCalled ==
  /\ audit.starts' # audit.starts
  /\ startCall'.viaReconnect

\* C35: once attemptReSync has failed by exhaustion, and until reconnect()
\* resets the coordinator, the attempt counter stays at maxRetries and every
\* later attemptReSync call issues no handshake, returns success = false
\* with attempts = 0 and makes no state transition
C35_ExhaustedUntilReconnect ==
  [][(audit.exhausted /\ ~ReconnectCalled) =>
       /\ currentAttempt' = reSyncConfig.maxRetries
       /\ audit.reissued' = audit.reissued
       /\ \A r \in Requests :
            (frames[r].pc = "none" /\ frames'[r].pc # "none") =>
              /\ frames'[r].pc = "done"
              /\ ~frames'[r].success
              /\ frames'[r].attempts = 0
              /\ \A i \in DOMAIN SetSince(r)' :
                   SetSince(r)'[i].message \notin ReSyncMessages]_vars

\* the processes that have not exited and whose exit and error listeners are
\* attached
Attached ==
  {p \in Processes : procs[p].attached /\ procs[p].status # "exited"}

\* process p emits an exit or an error event in this step
EmitsEvent(p) ==
  \/ procs[p].status # "exited" /\ procs'[p].status = "exited"
  \/ ~procs[p].errored /\ procs'[p].errored

\* an exit or error event of a process spawned by an earlier start() than the
\* one that created the current session leaves the registry unflushed and
\* serverProcessRunning and the connection state as they are
EarlierProcessEventsIgnored ==
  \A p \in Processes :
    (p < audit.spawned /\ serverProcess = audit.spawned /\ EmitsEvent(p)) =>
      /\ audit.flushes' = audit.flushes
      /\ pendingRequests' = pendingRequests
      /\ stateManager' = stateManager

\* C36: with lifecycle calls serialized, at most one spawned process has
\* its exit/error handlers attached at any time, and an event of a process
\* spawned by an earlier start() changes nothing of the later session
C36_OneProcessAttached ==
  /\ [](Cardinality(Attached) <= 1)
  /\ [][EarlierProcessEventsIgnored]_vars

\* the subclass calls sendRequest in this step
SubclassSends ==
  /\ requestId' # requestId
  /\ awaiting'[requestId'] = Caller

\* C37: after stop() has returned and until the next start() or reconnect(),
\* the connection state stays Disconnected and the registry stays empty: no
\* request timer and no continuation of a re-synchronization or of a start()
\* that was in flight changes them
C37_StoppedStaysStopped ==
  [][(isStopping' /\ ~SubclassSends) =>
       /\ audit.stops' # audit.stops =>
            /\ stateManager'.state = DISCONNECTED
            /\ DOMAIN pendingRequests' = {}
       /\ audit.stops' = audit.stops =>
            /\ stateManager'.state = stateManager.state
            /\ pendingRequests' = pendingRequests]_vars

\* the handshakes re-issued on account of the timeout of request r: those
\* that its attemptReSync call issued, and those issued on account of their
\* timeouts in turn
RECURSIVE ReissuedAfter(_)
ReissuedAfter(r) ==
  Handshakes(r) \cup UNION {ReissuedAfter(h) : h \in Handshakes(r)}

\* the handshakes that timed out and were not themselves re-issued by a
\* re-synchronization
OriginalTimeouts ==
  {r \in Requests : frames[r].pc # "none" /\ awaiting[r].kind # "resync"}

\* C38: the handshakes re-issued after one original handshake timeout,
\* nested re-synchronizations included, never number more than maxRetries
C38_NestedReSyncBounded ==
  \A r \in OriginalTimeouts :
    Cardinality(ReissuedAfter(r)) <= reSyncConfig.maxRetries

\* C40: in every reachable state of a client driven through start(), stop(),
\* reconnect() and the exit and error events of its processes, the
\* connection state Connected implies that serverProcessRunning is true
C40_ConnectedImpliesRunning ==
  stateManager.state = CONNECTED => stateManager.serverProcessRunning

\* the client is connected again, by a start() after its first process had
\* exited
C40_Witness ==
  /\ stateManager.state = CONNECTED
  /\ stateManager.serverProcessRunning
  /\ audit.spawned = 2
  /\ serverProcess = 2
  /\ procs[1].status = "exited"
  /\ procs[2].status = "running"

\* nothing is left that would run without a new call or a message of the
\* server: no request timer is armed and no re-synchronization sleeps
Quiescent ==
  /\ timers = {}
  /\ \A r \in Requests : frames[r].pc # "sleep"

\* the attemptReSync call of request r re-issues a handshake in this step
ReSyncReissues(r) == Handshakes(r)' # Handshakes(r)

\* C39: every future returned by sendRequest is eventually settled, given
\* that armed timers fire and continuations run; in the form that a finite
\* run refutes: when no timer is left, no future is pending, and the
\* re-synchronization that defers the rejection of a timed-out 'initialize'
\* request approaches its end: as long as no stop(), start() or reconnect()
\* is called, each handshake it re-issues uses up a further one of its
\* maxRetries attempts
C39_EveryFutureSettled ==
  /\ [](Quiescent => \A id \in Requests : future[id].status # "pending")
  /\ [][\A r \in Requests :
          (ReSyncReissues(r) /\ audit.starts' = 1 /\ audit.stops' = 0) =>
            Cardinality(Handshakes(r)') <= currentAttempt' - frames'[r].startAttempt]_vars

====
